---- MODULE Spec2Model ----
(***************************************************************************)
(* folder2md4llms: the budget-aware condensing pipeline.                   *)
(*   ProgressiveCondenser  (analyzers/progressive_condenser.py)            *)
(*   SmartChunker          (utils/smart_chunker.py)                        *)
(*                                                                         *)
(* A text is modelled by the list of its lines, i.e. by text.split("\n");  *)
(* "\n".join(lines) is the inverse of that split, so a text and its list   *)
(* of lines determine each other.  Every text therefore has at least one   *)
(* line, and the empty text is <<"">>.  Lines are TLA+ strings.            *)
(***************************************************************************)
EXTENDS Integers, Sequences, FiniteSets, TLC

(***************************************************************************)
(* Bounds of the model.                                                    *)
(***************************************************************************)
MaxLines == 3
MaxBudget == 4
MaxCondLines == 2

(***************************************************************************)
(* Python values.                                                          *)
(***************************************************************************)
None == -1
NoneStr == "None"

\* Python truthiness of an Optional[int]: None and 0 are both falsy.
Truthy(v) == v # None /\ v # 0

\* The value of a singleton set.  Only({e : x \in {v}}) is e with x bound to
\* v: a local variable assigned once and read many times.
Only(S) == CHOOSE x \in S : TRUE

Min(a, b) == IF a <= b THEN a ELSE b
Max(a, b) == IF a >= b THEN a ELSE b

(***************************************************************************)
(* String helpers (str.startswith, str.strip, `in`).                       *)
(***************************************************************************)
StartsWith(s, p) == Len(s) >= Len(p) /\ SubSeq(s, 1, Len(p)) = p

EndsWith(s, p) == Len(s) >= Len(p) /\ SubSeq(s, Len(s) - Len(p) + 1, Len(s)) = p

Contains(s, p) == \E k \in 1..(Len(s) - Len(p) + 1) : SubSeq(s, k, k + Len(p) - 1) = p

RECURSIVE LStrip(_)
LStrip(s) == IF s # "" /\ SubSeq(s, 1, 1) = " " THEN LStrip(SubSeq(s, 2, Len(s))) ELSE s

RECURSIVE RStrip(_)
RStrip(s) == IF s # "" /\ SubSeq(s, Len(s), Len(s)) = " " THEN RStrip(SubSeq(s, 1, Len(s) - 1)) ELSE s

Strip(s) == RStrip(LStrip(s))

\* Number of leading blanks of a line.
Indent(s) == Len(s) - Len(LStrip(s))

\* str.lower on ASCII text.
UpperCase == "ABCDEFGHIJKLMNOPQRSTUVWXYZ"
LowerCase == "abcdefghijklmnopqrstuvwxyz"

LowerChar(c) ==
    LET hits == {k \in 1..Len(UpperCase) : SubSeq(UpperCase, k, k) = c}
    IN  IF hits = {} THEN c ELSE LET k == CHOOSE h \in hits : TRUE IN SubSeq(LowerCase, k, k)

RECURSIVE Lower(_)
Lower(s) == IF s = "" THEN "" ELSE LowerChar(SubSeq(s, 1, 1)) \o Lower(SubSeq(s, 2, Len(s)))

(***************************************************************************)
(* Texts as lists of lines.                                                *)
(***************************************************************************)
\* "\n".join(lines), as a text: joining no lines gives the empty text.
Join(lines) == IF lines = <<>> THEN <<"">> ELSE lines

RECURSIVE SumLen(_)
SumLen(lines) == IF lines = <<>> THEN 0 ELSE Len(Head(lines)) + SumLen(Tail(lines))

\* len(text): the characters of the lines and the newlines between them.
TextLen(text) == SumLen(text) + (Len(text) - 1)

\* not text.strip()
IsBlank(text) == \A k \in 1..Len(text) : Strip(text[k]) = ""

(***************************************************************************)
(* utils/token_utils.estimate_tokens_from_text: the character-count        *)
(* heuristic, one token per CharsPerToken characters, rounded down.        *)
(***************************************************************************)
CharsPerToken == 4

estimate_tokens_from_text(text) == TextLen(text) \div CharsPerToken

(***************************************************************************)
(* dataclass Chunk.  continuation_from, continues_to and chunk_type are    *)
(* never set by the chunker and keep their defaults.                       *)
(***************************************************************************)
Chunk(content, chunk_id, total_chunks, start_line, end_line, context_info, estimated_tokens) ==
    [content |-> content, chunk_id |-> chunk_id, total_chunks |-> total_chunks,
     start_line |-> start_line, end_line |-> end_line, context_info |-> context_info,
     continuation_from |-> None, continues_to |-> None,
     estimated_tokens |-> estimated_tokens, chunk_type |-> "content"]

\* The chunks with the final pass over total_chunks left out.
KeepTotalChunks(chunks) == chunks

\* for chunk in chunks: chunk.total_chunks = len(chunks)
SetTotalChunks(chunks) == [k \in 1..Len(chunks) |-> [chunks[k] EXCEPT !.total_chunks = Len(chunks)]]

(***************************************************************************)
(* SmartChunker._chunk_generic_content                                     *)
(***************************************************************************)
\* The chunk the generic packer appends when line i does not fit.
GenericFlush(st, i) ==
    IF st.current_lines # <<>>
    THEN [st EXCEPT !.chunks = Append(@, Chunk(Join(st.current_lines), st.chunk_id, 0,
                                               i - Len(st.current_lines), i - 1, NoneStr,
                                               st.current_tokens)),
                    !.chunk_id = @ + 1]
    ELSE st

RECURSIVE GenericLoop(_, _, _, _)
GenericLoop(lines, max_tokens, i, st) ==
    IF i >= Len(lines) THEN st
    ELSE LET line == lines[i + 1]
             line_tokens == estimate_tokens_from_text(<<line>>)
         IN  IF st.current_tokens + line_tokens <= max_tokens
             THEN GenericLoop(lines, max_tokens, i + 1,
                      [st EXCEPT !.current_lines = Append(@, line),
                                 !.current_tokens = @ + line_tokens])
             ELSE GenericLoop(lines, max_tokens, i + 1,
                      [GenericFlush(st, i) EXCEPT !.current_lines = <<line>>,
                                                  !.current_tokens = line_tokens])

\* Lines 579-590: the last chunk, when lines are left over.
GenericLast(lines, st) ==
    IF st.current_lines # <<>>
    THEN Append(st.chunks, Chunk(Join(st.current_lines), st.chunk_id, 0,
                                 Len(lines) - Len(st.current_lines), Len(lines) - 1, NoneStr,
                                 estimate_tokens_from_text(Join(st.current_lines))))
    ELSE st.chunks

_chunk_generic_content(content, max_tokens) ==
    SetTotalChunks(Only({GenericLast(content, st) :
        st \in {GenericLoop(content, max_tokens, 0,
                    [chunks |-> <<>>, current_lines |-> <<>>, current_tokens |-> 0,
                     chunk_id |-> 1])}}))

(***************************************************************************)
(* ast.parse on the Python subset the model's inputs are written in:       *)
(* physical lines are grouped into logical lines by bracket depth, comment *)
(* and blank lines are skipped, blocks are opened by a logical line ending *)
(* in ":" and delimited by indentation.  A bracket left open or closed     *)
(* twice, an unexpected indent, an inconsistent dedent and a block header  *)
(* without a body are SyntaxError.                                         *)
(***************************************************************************)
Bad == -1

\* Bracket depth after scanning s from position k at depth d (Bad: a closing
\* bracket with nothing open).  A "#" starts a comment.
RECURSIVE DepthAfter(_, _, _)
DepthAfter(s, k, d) ==
    IF k > Len(s) THEN d
    ELSE LET c == SubSeq(s, k, k)
         IN  IF c = "#" THEN d
             ELSE IF c \in {"(", "[", "{"} THEN DepthAfter(s, k + 1, d + 1)
             ELSE IF c \in {")", "]", "}"}
                  THEN IF d = 0 THEN Bad ELSE DepthAfter(s, k + 1, d - 1)
             ELSE DepthAfter(s, k + 1, d)

\* depths[k]: the bracket depth at the end of physical line k.
RECURSIVE LineDepths(_, _, _)
LineDepths(lines, k, acc) ==
    IF k > Len(lines) THEN acc
    ELSE LET before == IF k = 1 THEN 0 ELSE acc[k - 1]
             after == IF before = Bad THEN Bad ELSE DepthAfter(lines[k], 1, before)
         IN  LineDepths(lines, k + 1, Append(acc, after))

IsCommentOrBlank(line) == Strip(line) = "" \/ StartsWith(Strip(line), "#")

\* The logical lines: first and last physical line (1-based, as lineno and
\* end_lineno), indentation, stripped first line, and whether it opens a block.
RECURSIVE LogicalLines(_, _, _, _)
LogicalLines(lines, depths, k, acc) ==
    IF k > Len(lines) THEN acc
    ELSE IF IsCommentOrBlank(lines[k]) THEN LogicalLines(lines, depths, k + 1, acc)
    ELSE LET closing == {j \in k..Len(lines) : depths[j] = 0}
             last == IF closing = {} THEN Len(lines)
                     ELSE CHOOSE j \in closing : \A j2 \in closing : j <= j2
             code == LET t == Strip(lines[last])
                         cut == {c \in 1..Len(t) : SubSeq(t, c, c) = "#"}
                     IN  IF cut = {} THEN t
                         ELSE Strip(SubSeq(t, 1, (CHOOSE c \in cut : \A c2 \in cut : c <= c2) - 1))
         IN  LogicalLines(lines, depths, last + 1,
                 Append(acc, [first |-> k, last |-> last, indent |-> Indent(lines[k]),
                              text |-> Strip(lines[k]), opener |-> EndsWith(code, ":")]))

\* The indentation stack of the tokenizer: TRUE when every INDENT follows a
\* block header and every DEDENT returns to an enclosing level.
RECURSIVE IndentOk(_, _, _, _)
IndentOk(ll, k, stack, prev_opener) ==
    IF k > Len(ll) THEN ~prev_opener
    ELSE LET d == ll[k].indent
             top == stack[Len(stack)]
         IN  IF prev_opener
             THEN d > top /\ IndentOk(ll, k + 1, Append(stack, d), ll[k].opener)
             ELSE LET keep == SelectSeq(stack, LAMBDA x : x <= d)
                  IN  /\ d <= top
                      /\ keep # <<>>
                      /\ keep[Len(keep)] = d
                      /\ IndentOk(ll, k + 1, keep, ll[k].opener)

\* A statement that is one string literal, "..." or """...""", on one line.
IsStringLiteral(text) ==
    \/ Len(text) >= 6 /\ StartsWith(text, "\"\"\"") /\ EndsWith(text, "\"\"\"")
    \/ Len(text) >= 2 /\ StartsWith(text, "\"") /\ EndsWith(text, "\"")

\* The value of such a literal.
StringValue(text) ==
    IF Len(text) >= 6 /\ StartsWith(text, "\"\"\"") THEN SubSeq(text, 4, Len(text) - 3)
    ELSE SubSeq(text, 2, Len(text) - 1)

NodeType(text) ==
    IF StartsWith(text, "def ") THEN "FunctionDef"
    ELSE IF StartsWith(text, "async def ") THEN "AsyncFunctionDef"
    ELSE IF StartsWith(text, "class ") THEN "ClassDef"
    ELSE IF StartsWith(text, "import ") \/ StartsWith(text, "from ") THEN "Import"
    ELSE IF IsStringLiteral(text) THEN "Str"
    ELSE "Stmt"

\* The identifier after the keyword of a def or class header.
NodeName(text) ==
    LET rest == IF StartsWith(text, "async def ") THEN SubSeq(text, 11, Len(text))
                ELSE IF StartsWith(text, "def ") THEN SubSeq(text, 5, Len(text))
                ELSE IF StartsWith(text, "class ") THEN SubSeq(text, 7, Len(text))
                ELSE text
        stops == {c \in 1..Len(rest) : SubSeq(rest, c, c) \in {"(", ":", " "}}
    IN  IF stops = {} THEN rest
        ELSE SubSeq(rest, 1, (CHOOSE c \in stops : \A c2 \in stops : c <= c2) - 1)

\* The statements of one block: the logical lines of ll[from..to] at the
\* indentation of ll[from], each with the end of its own nested block.
BlockItems(ll, from, to) ==
    LET heads == {k \in from..to : ll[k].indent = ll[from].indent}
        EndOf(k) == LET later == {h \in heads : h > k}
                        stop == IF later = {} THEN to
                                ELSE (CHOOSE h \in later : \A h2 \in later : h <= h2) - 1
                    IN  stop
        Ordered == SelectSeq([k \in 1..Len(ll) |-> k], LAMBDA k : k \in heads)
    IN  [n \in 1..Len(Ordered) |->
            [type |-> NodeType(ll[Ordered[n]].text), name |-> NodeName(ll[Ordered[n]].text),
             text |-> ll[Ordered[n]].text,
             lineno |-> ll[Ordered[n]].first, end_lineno |-> ll[EndOf(Ordered[n])].last,
             from |-> Ordered[n], to |-> EndOf(Ordered[n])]]

\* ast.parse(content): ok = FALSE stands for SyntaxError; body is tree.body,
\* every ClassDef carrying its own body in `items`.
TreeOf(ll, ok, top) ==
    [ok |-> ok,
     body |-> IF ~ok THEN <<>>
              ELSE [n \in 1..Len(top) |->
                      [type |-> top[n].type, name |-> top[n].name, text |-> top[n].text,
                       lineno |-> top[n].lineno, end_lineno |-> top[n].end_lineno,
                       items |-> IF top[n].to > top[n].from
                                 THEN BlockItems(ll, top[n].from + 1, top[n].to)
                                 ELSE <<>>]]]

ParseLogicalLines(depths, ll) ==
    Only({TreeOf(ll, ok, top) :
        ok \in {/\ \A k \in 1..Len(depths) : depths[k] # Bad
                /\ depths[Len(depths)] = 0
                /\ IndentOk(ll, 1, <<0>>, FALSE)},
        top \in {IF ll = <<>> THEN <<>> ELSE BlockItems(ll, 1, Len(ll))}})

ParseDepths(lines, depths) ==
    Only({ParseLogicalLines(depths, ll) : ll \in {LogicalLines(lines, depths, 1, <<>>)}})

ast_parse(lines) ==
    Only({ParseDepths(lines, depths) : depths \in {LineDepths(lines, 1, <<>>)}})

(***************************************************************************)
(* SmartChunker._find_python_boundaries                                    *)
(***************************************************************************)
Boundary(start, end, btype, name) == [start |-> start, end |-> end, btype |-> btype, name |-> name]

IsFunctionDef(node) == node.type \in {"FunctionDef", "AsyncFunctionDef"}

\* The boundaries one node of tree.body contributes, in the order appended.
NodeBoundaries(node) ==
    IF IsFunctionDef(node)
    THEN <<Boundary(node.lineno - 1, node.end_lineno - 1, "function", node.name)>>
    ELSE IF node.type = "ClassDef"
    THEN LET methods == SelectSeq(node.items, IsFunctionDef)
         IN  <<Boundary(node.lineno - 1, node.end_lineno - 1, "class", node.name)>>
             \o [m \in 1..Len(methods) |->
                    Boundary(methods[m].lineno - 1, methods[m].end_lineno - 1, "method",
                             node.name \o "." \o methods[m].name)]
    ELSE <<>>

RECURSIVE FlattenBoundaries(_, _)
FlattenBoundaries(body, k) ==
    IF k > Len(body) THEN <<>> ELSE NodeBoundaries(body[k]) \o FlattenBoundaries(body, k + 1)

\* sorted(boundaries, key=lambda x: x[0]): a stable sort by start line.
RECURSIVE SortByStart(_)
SortByStart(bs) ==
    IF bs = <<>> THEN <<>>
    ELSE LET rest == SortByStart(Tail(bs))
             b == Head(bs)
         IN  SelectSeq(rest, LAMBDA x : x.start < b.start) \o <<b>>
             \o SelectSeq(rest, LAMBDA x : x.start >= b.start)

_find_python_boundaries(tree, lines) == SortByStart(FlattenBoundaries(tree.body, 1))

(***************************************************************************)
(* SmartChunker._create_chunk                                              *)
(***************************************************************************)
_create_chunk(lines, chunk_id, start_line, end_line) ==
    Chunk(Join(lines), chunk_id, 0, start_line, end_line, NoneStr,
          estimate_tokens_from_text(Join(lines)))

(***************************************************************************)
(* SmartChunker._split_large_boundary                                      *)
(***************************************************************************)
PartInfo(boundary_type, name, k) ==
    boundary_type \o " " \o name \o " (part " \o ToString(k) \o ")"

\* The sub-chunk with its part number counted from 0.
SubChunkCountFromZero(st, start_chunk_id, boundary_type, name, start_line, tokens) ==
    Chunk(Join(st.current_lines), st.chunk_id, 0, start_line, None,
          PartInfo(boundary_type, name, st.chunk_id - start_chunk_id), tokens)

SubChunk(st, start_chunk_id, boundary_type, name, start_line, tokens) ==
    Chunk(Join(st.current_lines), st.chunk_id, 0, start_line, None,
          PartInfo(boundary_type, name, st.chunk_id - start_chunk_id + 1), tokens)

\* The split loop with a new sub-chunk opened by the line alone, the
\* signature line not repeated.
RECURSIVE SplitLoopNoSignature(_, _, _, _, _, _, _, _)
SplitLoopNoSignature(boundary_lines, max_tokens, start_chunk_id, boundary_type, name, start_line, k, st) ==
    IF k > Len(boundary_lines) THEN st
    ELSE LET line == boundary_lines[k]
             line_tokens == estimate_tokens_from_text(<<line>>)
         IN  IF st.current_tokens + line_tokens <= max_tokens
             THEN SplitLoopNoSignature(boundary_lines, max_tokens, start_chunk_id, boundary_type,
                                       name, start_line, k + 1,
                                       [st EXCEPT !.current_lines = Append(@, line),
                                                  !.current_tokens = @ + line_tokens])
             ELSE SplitLoopNoSignature(boundary_lines, max_tokens, start_chunk_id, boundary_type,
                                       name, start_line, k + 1,
                                       [sub_chunks |-> Append(st.sub_chunks,
                                                          SubChunk(st, start_chunk_id,
                                                                   boundary_type, name,
                                                                   start_line, st.current_tokens)),
                                        chunk_id |-> st.chunk_id + 1,
                                        current_lines |-> <<line>>,
                                        current_tokens |-> line_tokens])

RECURSIVE SplitLoop(_, _, _, _, _, _, _, _)
SplitLoop(boundary_lines, max_tokens, start_chunk_id, boundary_type, name, start_line, k, st) ==
    IF k > Len(boundary_lines) THEN st
    ELSE LET line == boundary_lines[k]
             signature_line == boundary_lines[1]
             line_tokens == estimate_tokens_from_text(<<line>>)
         IN  Only({SplitLoop(boundary_lines, max_tokens, start_chunk_id, boundary_type, name,
                             start_line, k + 1, next) :
                 next \in {IF st.current_tokens + line_tokens <= max_tokens
                           THEN [st EXCEPT !.current_lines = Append(@, line),
                                           !.current_tokens = @ + line_tokens]
                           ELSE [sub_chunks |-> Append(st.sub_chunks,
                                                       SubChunk(st, start_chunk_id, boundary_type,
                                                                name, start_line,
                                                                st.current_tokens)),
                                 chunk_id |-> st.chunk_id + 1,
                                 current_lines |-> <<signature_line, line>>,
                                 current_tokens |-> estimate_tokens_from_text(<<signature_line>>)
                                                    + line_tokens]}})

_split_large_boundary(boundary_lines, max_tokens, start_chunk_id, boundary_type, name, start_line) ==
    Only({Append(st.sub_chunks,
                 SubChunk(st, start_chunk_id, boundary_type, name, start_line,
                          estimate_tokens_from_text(Join(st.current_lines)))) :
        st \in {SplitLoop(boundary_lines, max_tokens, start_chunk_id, boundary_type, name,
                          start_line, 2,
                          [sub_chunks |-> <<>>, chunk_id |-> start_chunk_id,
                           current_lines |-> <<IF boundary_lines # <<>> THEN boundary_lines[1]
                                               ELSE "">>,
                           current_tokens |-> estimate_tokens_from_text(
                               <<IF boundary_lines # <<>> THEN boundary_lines[1] ELSE "">>)])}})

(***************************************************************************)
(* SmartChunker._create_chunks_with_boundaries                             *)
(***************************************************************************)
\* Slice with its end taken as inclusive-exclusive one line too early.
SliceOffByOne(lines, a, b) == SubSeq(lines, Max(a, 0) + 1, Min(b - 1, Len(lines)))

\* lines[a:b] of Python (0-based, b exclusive, clamped to the list).
Slice(lines, a, b) == SubSeq(lines, Max(a, 0) + 1, Min(b, Len(lines)))

\* The first boundary that starts at line i, or <<>> when there is none.
BoundaryAt(boundaries, i) ==
    LET hits == SelectSeq(boundaries, LAMBDA b : b.start = i)
    IN  IF hits = <<>> THEN <<>> ELSE <<hits[1]>>

\* The flush that leaves last_line_processed where it was.
FlushKeepsLastLine(st, i, reset) ==
    IF st.current_chunk_lines # <<>>
    THEN [st EXCEPT !.chunks = Append(@, _create_chunk(st.current_chunk_lines, st.chunk_id,
                                          st.last_line_processed,
                                          st.last_line_processed + Len(st.current_chunk_lines) - 1)),
                    !.chunk_id = @ + 1,
                    !.current_chunk_lines = IF reset THEN <<>> ELSE @,
                    !.current_tokens = IF reset THEN 0 ELSE @]
    ELSE st

\* chunks.append(self._create_chunk(...)); chunk_id += 1, when the current
\* chunk has lines; last_line_processed = i in the same branch.
Flush(st, i, reset) ==
    IF st.current_chunk_lines # <<>>
    THEN [st EXCEPT !.chunks = Append(@, _create_chunk(st.current_chunk_lines, st.chunk_id,
                                          st.last_line_processed,
                                          st.last_line_processed + Len(st.current_chunk_lines) - 1)),
                    !.chunk_id = @ + 1,
                    !.current_chunk_lines = IF reset THEN <<>> ELSE @,
                    !.current_tokens = IF reset THEN 0 ELSE @,
                    !.last_line_processed = i]
    ELSE st

\* One iteration of the while loop (lines 251-344): the line index and
\* the packer's locals after it.
PackStep(lines, boundaries, max_tokens, i, st) ==
    LET found == BoundaryAt(boundaries, i)
    IN  IF found # <<>>
        THEN LET b == found[1]
                 boundary_lines == Slice(lines, b.start, b.end + 1)
                 boundary_tokens == estimate_tokens_from_text(Join(boundary_lines))
             IN  IF st.current_tokens + boundary_tokens <= max_tokens
                 THEN [i |-> b.end + 1,
                       st |-> [st EXCEPT !.current_chunk_lines = @ \o boundary_lines,
                                         !.current_tokens = @ + boundary_tokens]]
                 ELSE IF boundary_tokens > max_tokens
                 THEN LET fl == Flush(st, i, TRUE)
                          sub_chunks == _split_large_boundary(boundary_lines, max_tokens,
                                            fl.chunk_id, b.btype, b.name, b.start)
                      IN  [i |-> b.end + 1,
                           st |-> [fl EXCEPT !.chunks = @ \o sub_chunks,
                                             !.chunk_id = @ + Len(sub_chunks),
                                             !.last_line_processed = b.end + 1]]
                 ELSE [i |-> b.end + 1,
                       st |-> [Flush(st, i, FALSE) EXCEPT
                                   !.current_chunk_lines = boundary_lines,
                                   !.current_tokens = boundary_tokens]]
        ELSE LET line == lines[i + 1]
                 line_tokens == estimate_tokens_from_text(<<line>>)
             IN  IF st.current_tokens + line_tokens <= max_tokens
                 THEN [i |-> i + 1,
                       st |-> [st EXCEPT !.current_chunk_lines = Append(@, line),
                                         !.current_tokens = @ + line_tokens]]
                 ELSE [i |-> i + 1,
                       st |-> [Flush(st, i, FALSE) EXCEPT !.current_chunk_lines = <<line>>,
                                                          !.current_tokens = line_tokens]]

\* while i < len(lines): ...
RECURSIVE PackLoop(_, _, _, _, _)
PackLoop(lines, boundaries, max_tokens, i, st) ==
    IF i >= Len(lines) THEN st
    ELSE Only({PackLoop(lines, boundaries, max_tokens, step.i, step.st) :
             step \in {PackStep(lines, boundaries, max_tokens, i, st)}})

\* The chunks of the packer before the overlap pass (lines 242-363).
PackLast(st) ==
    IF st.current_chunk_lines # <<>>
    THEN Append(st.chunks, _create_chunk(st.current_chunk_lines, st.chunk_id,
                    st.last_line_processed,
                    st.last_line_processed + Len(st.current_chunk_lines) - 1))
    ELSE st.chunks

PackWithBoundaries(lines, boundaries, max_tokens) ==
    SetTotalChunks(Only({PackLast(st) :
        st \in {PackLoop(lines, boundaries, max_tokens, 0,
                    [chunks |-> <<>>, current_chunk_lines |-> <<>>, current_tokens |-> 0,
                     chunk_id |-> 1, last_line_processed |-> 0])}}))

(***************************************************************************)
(* SmartChunker._add_function_overlaps                                     *)
(***************************************************************************)
\* The marker one boundary contributes to one chunk (<<>>: none).
OverlapMarker(chunk, b) ==
    IF b.btype \notin {"function", "method"} THEN <<>>
    ELSE IF Truthy(chunk.start_line) /\ b.start < chunk.start_line /\ b.end >= chunk.start_line
    THEN <<"# Continued from: def " \o b.name \o "(...)">>
    ELSE IF Truthy(chunk.end_line) /\ b.start <= chunk.end_line /\ b.end > chunk.end_line
    THEN <<"# Continues: def " \o b.name \o "(...)">>
    ELSE <<>>

RECURSIVE overlapping_functions(_, _, _)
overlapping_functions(chunk, boundaries, k) ==
    IF k > Len(boundaries) THEN <<>>
    ELSE OverlapMarker(chunk, boundaries[k]) \o overlapping_functions(chunk, boundaries, k + 1)

OverlapChunk(chunk, boundaries) ==
    LET markers == overlapping_functions(chunk, boundaries, 1)
        enhanced_content == IF markers # <<>> THEN markers \o <<"">> \o chunk.content
                            ELSE chunk.content
    IN  [chunk EXCEPT !.content = enhanced_content,
                      !.estimated_tokens = estimate_tokens_from_text(enhanced_content)]

_add_function_overlaps(chunks, boundaries) ==
    [k \in 1..Len(chunks) |-> OverlapChunk(chunks[k], boundaries)]

\* self.stats["function_overlaps"] += 1 for every chunk that got a marker.
OverlapCount(chunks, boundaries) ==
    Cardinality({k \in 1..Len(chunks) : overlapping_functions(chunks[k], boundaries, 1) # <<>>})

\* packed: the chunks before the overlap pass; chunks: what is returned.
_create_chunks_with_boundaries(lines, boundaries, max_tokens, overlap_functions) ==
    Only({[boundaries |-> boundaries,
           packed |-> packed,
           chunks |-> IF overlap_functions THEN _add_function_overlaps(packed, boundaries)
                      ELSE packed,
           function_overlaps |-> IF overlap_functions THEN OverlapCount(packed, boundaries)
                                 ELSE 0] :
        packed \in {PackWithBoundaries(lines, boundaries, max_tokens)}})

\* The same record for the generic packer, which knows no boundaries.
GenericResult(content, max_tokens) ==
    Only({[boundaries |-> <<>>, packed |-> packed, chunks |-> packed, function_overlaps |-> 0] :
        packed \in {_chunk_generic_content(content, max_tokens)}})

(***************************************************************************)
(* SmartChunker.add_continuation_context                                   *)
(***************************************************************************)
\* The header and footer of part i (0-based) of n; a header ends in "\n" and
\* a footer starts with one, which the join turns into an empty line.
ContextHeader(name, i, n, chunk) ==
    IF i > 0
    THEN <<"# Continuation of " \o name \o " (Part " \o ToString(i + 1) \o "/" \o ToString(n) \o ")">>
         \o (IF Truthy(chunk.continuation_from)
             THEN <<"# Continued from Part " \o ToString(chunk.continuation_from)>> ELSE <<>>)
         \o <<"">>
    ELSE <<"# " \o name \o " (Part " \o ToString(i + 1) \o "/" \o ToString(n) \o ")", "">>

ContextFooter(i, n) ==
    IF i < n - 1
    THEN <<"", "# Continues in Part " \o ToString(i + 2) \o "/" \o ToString(n) \o "...">>
    ELSE <<>>

EnhancedChunk(name, i, n, chunk) ==
    LET enhanced_content == ContextHeader(name, i, n, chunk) \o chunk.content \o ContextFooter(i, n)
    IN  [chunk EXCEPT !.content = enhanced_content,
                      !.context_info = "Part " \o ToString(i + 1) \o " of " \o ToString(n),
                      !.estimated_tokens = estimate_tokens_from_text(enhanced_content)]

add_continuation_context(chunks, name) ==
    IF Len(chunks) <= 1 THEN chunks
    ELSE [k \in 1..Len(chunks) |-> EnhancedChunk(name, k - 1, Len(chunks), chunks[k])]

(***************************************************************************)
(* pathlib: Path.name is the file name itself, Path.suffix the part from   *)
(* its last dot on (none when the name has no dot after its first          *)
(* character).  FileSuffix is file_path.suffix.lower().                    *)
(***************************************************************************)
Suffix(name) ==
    LET dots == {k \in 2..Len(name) : SubSeq(name, k, k) = "."}
    IN  IF dots = {} THEN ""
        ELSE SubSeq(name, CHOOSE k \in dots : \A k2 \in dots : k >= k2, Len(name))

FileSuffix(name) == Lower(Suffix(name))

(***************************************************************************)
(* SmartChunker._chunk_python_content: exc = "none" when it returns.       *)
(***************************************************************************)
_chunk_python_content(content, max_tokens, overlap_functions) ==
    Only({IF tree.ok
          THEN [exc |-> "none",
                val |-> _create_chunks_with_boundaries(content,
                            _find_python_boundaries(tree, content), max_tokens,
                            overlap_functions)]
          ELSE [exc |-> "none", val |-> GenericResult(content, max_tokens)] :
        tree \in {ast_parse(content)}})

(***************************************************************************)
(* re.match on one line, for the patterns of the JavaScript and Java       *)
(* chunkers.  A position p stands for "the characters before p are         *)
(* matched"; every piece of a pattern maps the set of positions reached so *)
(* far to the set reachable after it, which gives the alternatives of ?,   *)
(* * and + without backtracking.                                           *)
(***************************************************************************)
IsSpace(c) == c \in {" ", "\t", "\n"}

WordChars == "abcdefghijklmnopqrstuvwxyzABCDEFGHIJKLMNOPQRSTUVWXYZ0123456789_"

WordCharSet == {SubSeq(WordChars, k, k) : k \in 1..Len(WordChars)}

IsWordChar(c) == c \in WordCharSet

\* The literal lit.
Lit(s, P, lit) ==
    {p + Len(lit) : p \in {q \in P : q + Len(lit) - 1 <= Len(s)
                                     /\ SubSeq(s, q, q + Len(lit) - 1) = lit}}

\* The position after the longest run of characters satisfying Ok that
\* starts at p.
RunEnd(s, p, Ok(_)) ==
    CHOOSE q \in p..(Len(s) + 1) :
        /\ q = Len(s) + 1 \/ ~Ok(SubSeq(s, q, q))
        /\ \A j \in p..(q - 1) : Ok(SubSeq(s, j, j))

\* One or more, and zero or more, characters that satisfy Ok.
Run1(s, P, Ok(_)) == UNION {(p + 1)..RunEnd(s, p, Ok) : p \in P}

Run0(s, P, Ok(_)) == P \cup Run1(s, P, Ok)

\* \s* and \s+
Spaces0(s, P) == Run0(s, P, IsSpace)

Spaces1(s, P) == Run1(s, P, IsSpace)

\* \w+
Word1(s, P) == Run1(s, P, IsWordChar)

\* function_patterns, lines 490-497, each after its leading ^\s*.
JsFunctionPattern(s, P) ==
    \/ Word1(s, Spaces1(s, Lit(s, P, "function"))) # {}
    \/ Word1(s, Spaces1(s, Lit(s, Spaces1(s, Lit(s, P, "async")), "function"))) # {}
    \/ Lit(s, Spaces0(s, Lit(s, Spaces0(s, Word1(s, Spaces1(s, Lit(s, P, "const")))), "=")),
           "(") # {}
    \/ Word1(s, Spaces1(s, Lit(s, Spaces1(s, Lit(s, P, "export")), "function"))) # {}
    \/ Lit(s, Spaces0(s, Word1(s, Spaces1(s, Lit(s, Spaces1(s, Lit(s, P, "export")),
                                                 "const")))), "=") # {}
    \/ Word1(s, Spaces1(s, Lit(s, P, "class"))) # {}

IsJsFunctionLine(line) == JsFunctionPattern(line, Spaces0(line, {1}))

\* Lines 528-531: ^\s*(public|private|protected)?\s*(static\s+)?
\*                (class|interface|\w+\s+\w+\s*\()
JavaAfterModifiers(s, P) ==
    \/ Lit(s, P, "class") # {}
    \/ Lit(s, P, "interface") # {}
    \/ Lit(s, Spaces0(s, Word1(s, Spaces1(s, Word1(s, P)))), "(") # {}

JavaStatic(s, P) == JavaAfterModifiers(s, P \cup Spaces1(s, Lit(s, P, "static")))

JavaVisibility(s, P) ==
    JavaStatic(s, Spaces0(s, P \cup Lit(s, P, "public") \cup Lit(s, P, "private")
                                \cup Lit(s, P, "protected")))

IsJavaDeclarationLine(stripped) == JavaVisibility(stripped, Spaces0(stripped, {1}))

(***************************************************************************)
(* SmartChunker._find_js_block_end and _find_java_block_end                *)
(***************************************************************************)
\* The inner loop over the characters of one line: found is TRUE when a "}"
\* closes the block.
RECURSIVE ScanBraces(_, _, _)
ScanBraces(line, k, st) ==
    IF k > Len(line) THEN st
    ELSE IF SubSeq(line, k, k) = "{"
    THEN ScanBraces(line, k + 1, [st EXCEPT !.brace_count = @ + 1, !.in_block = TRUE])
    ELSE IF SubSeq(line, k, k) = "}"
    THEN IF st.in_block /\ st.brace_count - 1 = 0
         THEN [st EXCEPT !.brace_count = @ - 1, !.found = TRUE]
         ELSE ScanBraces(line, k + 1, [st EXCEPT !.brace_count = @ - 1])
    ELSE ScanBraces(line, k + 1, st)

RECURSIVE BlockEndFrom(_, _, _)
BlockEndFrom(lines, i, st) ==
    IF i >= Len(lines) THEN Len(lines) - 1
    ELSE Only({IF after.found THEN i ELSE BlockEndFrom(lines, i + 1, after) :
             after \in {ScanBraces(lines[i + 1], 1, st)}})

_find_js_block_end(lines, start) ==
    BlockEndFrom(lines, start, [brace_count |-> 0, in_block |-> FALSE, found |-> FALSE])

_find_java_block_end(lines, start) == _find_js_block_end(lines, start)

(***************************************************************************)
(* SmartChunker._chunk_javascript_content and _chunk_java_content.  The    *)
(* brace_stack of the Java chunker is written and never read.              *)
(***************************************************************************)
RECURSIVE JsBoundaries(_, _)
JsBoundaries(lines, i) ==
    IF i >= Len(lines) THEN <<>>
    ELSE (IF IsJsFunctionLine(lines[i + 1])
          THEN <<Boundary(i, _find_js_block_end(lines, i), "function", "js_function")>>
          ELSE <<>>)
         \o JsBoundaries(lines, i + 1)

_chunk_javascript_content(content, max_tokens, overlap_functions) ==
    [exc |-> "none",
     val |-> _create_chunks_with_boundaries(content, JsBoundaries(content, 0), max_tokens,
                                            overlap_functions)]

RECURSIVE JavaBoundaries(_, _)
JavaBoundaries(lines, i) ==
    IF i >= Len(lines) THEN <<>>
    ELSE (IF IsJavaDeclarationLine(Strip(lines[i + 1]))
          THEN <<Boundary(i, _find_java_block_end(lines, i), "declaration", "java_declaration")>>
          ELSE <<>>)
         \o JavaBoundaries(lines, i + 1)

_chunk_java_content(content, max_tokens, overlap_functions) ==
    [exc |-> "none",
     val |-> _create_chunks_with_boundaries(content, JavaBoundaries(content, 0), max_tokens,
                                            overlap_functions)]

\* Lines 93-103: the dispatch on the file extension.
DispatchChunks(content, suffix, max_tokens, strat) ==
    IF suffix = ".py" THEN _chunk_python_content(content, max_tokens, strat.overlap_functions)
    ELSE IF suffix \in {".js", ".ts", ".jsx", ".tsx"}
    THEN _chunk_javascript_content(content, max_tokens, strat.overlap_functions)
    ELSE IF suffix = ".java"
    THEN _chunk_java_content(content, max_tokens, strat.overlap_functions)
    ELSE [exc |-> "none", val |-> GenericResult(content, max_tokens)]

(***************************************************************************)
(* analyzers/priority_analyzer.PriorityLevel and CondensingLevel.           *)
(***************************************************************************)
PriorityLevel == {"CRITICAL", "HIGH", "MEDIUM", "LOW"}

NONE == "none"
LIGHT == "light"
MODERATE == "moderate"
HEAVY == "heavy"
MAXIMUM == "maximum"

(***************************************************************************)
(* ProgressiveCondenser._determine_condensing_level.                       *)
(* compression_needed = estimated_tokens / available_tokens is a float;    *)
(* it is kept as the pair of the two integers and compared with a          *)
(* threshold given in tenths.  For the integers of the model the float     *)
(* comparison and the exact one agree.  A zero divisor raises              *)
(* ZeroDivisionError.                                                      *)
(***************************************************************************)
\* num / den <= tenths / 10, for den # 0.
RatioLeq(num, den, tenths) ==
    IF den > 0 THEN 10 * num <= tenths * den ELSE 10 * num >= tenths * den

\* The selection with the first test strict: an exact fit is condensed.
_determine_condensing_level_strict(estimated_tokens, available_tokens, priority) ==
    IF available_tokens > estimated_tokens THEN [exc |-> "none", val |-> NONE]
    ELSE IF available_tokens = 0 THEN [exc |-> "ZeroDivisionError", val |-> NONE]
    ELSE LET Leq(tenths) == RatioLeq(estimated_tokens, available_tokens, tenths)
         IN  [exc |-> "none",
              val |-> IF priority = "CRITICAL"
                      THEN IF Leq(13) THEN LIGHT
                           ELSE IF Leq(20) THEN MODERATE
                           ELSE IF Leq(30) THEN HEAVY
                           ELSE MAXIMUM
                      ELSE IF priority = "HIGH"
                      THEN IF Leq(15) THEN LIGHT
                           ELSE IF Leq(25) THEN MODERATE
                           ELSE IF Leq(40) THEN HEAVY
                           ELSE MAXIMUM
                      ELSE IF Leq(20) THEN MODERATE
                           ELSE IF Leq(30) THEN HEAVY
                           ELSE MAXIMUM]

\* The selection with the HIGH branch missing: HIGH is treated as MEDIUM.
_determine_condensing_level_no_high(estimated_tokens, available_tokens, priority) ==
    IF available_tokens >= estimated_tokens THEN [exc |-> "none", val |-> NONE]
    ELSE IF available_tokens = 0 THEN [exc |-> "ZeroDivisionError", val |-> NONE]
    ELSE LET Leq(tenths) == RatioLeq(estimated_tokens, available_tokens, tenths)
         IN  [exc |-> "none",
              val |-> IF priority = "CRITICAL"
                      THEN IF Leq(13) THEN LIGHT
                           ELSE IF Leq(20) THEN MODERATE
                           ELSE IF Leq(30) THEN HEAVY
                           ELSE MAXIMUM
                      ELSE IF Leq(20) THEN MODERATE
                           ELSE IF Leq(30) THEN HEAVY
                           ELSE MAXIMUM]

_determine_condensing_level(estimated_tokens, available_tokens, priority) ==
    IF available_tokens >= estimated_tokens THEN [exc |-> "none", val |-> NONE]
    ELSE IF available_tokens = 0 THEN [exc |-> "ZeroDivisionError", val |-> NONE]
    ELSE LET Leq(tenths) == RatioLeq(estimated_tokens, available_tokens, tenths)
         IN  [exc |-> "none",
              val |-> IF priority = "CRITICAL"
                      THEN IF Leq(13) THEN LIGHT
                           ELSE IF Leq(20) THEN MODERATE
                           ELSE IF Leq(30) THEN HEAVY
                           ELSE MAXIMUM
                      ELSE IF priority = "HIGH"
                      THEN IF Leq(15) THEN LIGHT
                           ELSE IF Leq(25) THEN MODERATE
                           ELSE IF Leq(40) THEN HEAVY
                           ELSE MAXIMUM
                      ELSE IF Leq(20) THEN MODERATE
                           ELSE IF Leq(30) THEN HEAVY
                           ELSE MAXIMUM]

(***************************************************************************)
(* ProgressiveCondenser._condense_generic_content                          *)
(***************************************************************************)
\* lines[:n] and lines[-n:] of Python, for n > 0.
FirstN(lines, n) == SubSeq(lines, 1, Min(n, Len(lines)))
LastN(lines, n) == SubSeq(lines, Max(Len(lines) - n, 0) + 1, Len(lines))

_condense_generic_content(content, level) ==
    LET lines == content
    IN  IF level = LIGHT
        THEN Join(SelectSeq(lines, LAMBDA line :
                      Strip(line) # "" /\ ~StartsWith(Strip(line), "#")))
        ELSE IF level = MODERATE
        THEN IF Len(lines) <= 30 THEN content
             ELSE Join(FirstN(lines, 20) \o <<"# ... content truncated ...">> \o LastN(lines, 10))
        ELSE Join(FirstN(lines, 10) \o <<"# ... heavily truncated ...">>)

(***************************************************************************)
(* Helper methods for Python condensing.                                   *)
(***************************************************************************)
\* ast.get_docstring: the cleaned value of a leading string statement, ""
\* when there is none.
get_docstring(items) ==
    IF items # <<>> /\ items[1].type = "Str" THEN LStrip(StringValue(items[1].text)) ELSE ""

_get_source_segment(lines, node) ==
    Slice(lines, Max(0, node.lineno - 1), Min(Len(lines), node.end_lineno))

\* Lines from the def line on, up to the first one that contains ":".
RECURSIVE SignatureLines(_, _)
SignatureLines(lines, i) ==
    IF i >= Len(lines) THEN <<>>
    ELSE IF Contains(lines[i + 1], ":") THEN <<lines[i + 1]>>
    ELSE <<lines[i + 1]>> \o SignatureLines(lines, i + 1)

_get_function_signature(node, lines) ==
    IF node.lineno - 1 < Len(lines) THEN SignatureLines(lines, node.lineno - 1)
    ELSE <<"def " \o node.name \o "(...):">>

_get_class_signature(node, lines) ==
    IF node.lineno - 1 < Len(lines) THEN <<lines[node.lineno]>>
    ELSE <<"class " \o node.name \o ":">>

IsPlainFunctionDef(node) == node.type = "FunctionDef"

IndentAll(text) == [k \in 1..Len(text) |-> "    " \o text[k]]

\* "    " + text: only the first line of the text is indented.
IndentFirst(text) == <<"    " \o text[1]>> \o Tail(text)

DocLine(doc) == <<"    \"\"\"" \o doc \o "\"\"\"">>

RECURSIVE ConcatTexts(_)
ConcatTexts(texts) == IF texts = <<>> THEN <<>> ELSE Head(texts) \o ConcatTexts(Tail(texts))

important_methods == {"__init__", "__call__", "__enter__", "__exit__", "main", "run", "execute"}

_condense_python_class(node, lines, priority) ==
    LET docstring == get_docstring(node.items)
        kept == SelectSeq(node.items, LAMBDA item :
                    IsPlainFunctionDef(item)
                    /\ (item.name \in important_methods \/ priority = "CRITICAL"))
    IN  _get_class_signature(node, lines)
        \o (IF docstring # "" /\ priority \in {"CRITICAL", "HIGH"} THEN DocLine(docstring) ELSE <<>>)
        \o ConcatTexts([k \in 1..Len(kept) |-> IndentAll(_get_function_signature(kept[k], lines))])

_condense_python_function(node, lines, priority) ==
    LET docstring == get_docstring(node.items)
    IN  _get_function_signature(node, lines)
        \o (IF docstring # "" /\ priority \in {"CRITICAL", "HIGH"} THEN DocLine(docstring) ELSE <<>>)

(***************************************************************************)
(* The four Python strategies.                                             *)
(***************************************************************************)
IsDigitComment(stripped) == \E d \in 0..9 : StartsWith(stripped, "#" \o ToString(d))

RECURSIVE LightLoop(_, _, _)
LightLoop(lines, k, condensed_lines) ==
    IF k > Len(lines) THEN condensed_lines
    ELSE LET line == lines[k]
             stripped == Strip(line)
         IN  IF StartsWith(stripped, "#") /\ ~IsDigitComment(stripped)
             THEN LightLoop(lines, k + 1, condensed_lines)
             ELSE IF stripped = "" /\ Len(condensed_lines) > 0
                     /\ Strip(condensed_lines[Len(condensed_lines)]) = ""
             THEN LightLoop(lines, k + 1, condensed_lines)
             ELSE LightLoop(lines, k + 1, Append(condensed_lines, line))

_light_condense_python(content, tree) == Join(LightLoop(content, 1, <<>>))

ImportSegments(lines, tree) ==
    LET nodes == SelectSeq(tree.body, LAMBDA node : node.type = "Import")
    IN  [k \in 1..Len(nodes) |-> _get_source_segment(lines, nodes[k])]

_moderate_condense_python(content, tree, priority) ==
    LET lines == content
        module_docstring == get_docstring(tree.body)
        imports == ImportSegments(lines, tree)
        Part(node) == IF node.type = "ClassDef"
                      THEN _condense_python_class(node, lines, priority) \o <<"">>
                      ELSE IF IsPlainFunctionDef(node)
                      THEN _condense_python_function(node, lines, priority) \o <<"">>
                      ELSE <<>>
    IN  Join((IF module_docstring # "" /\ priority \in {"CRITICAL", "HIGH"}
              THEN <<"\"\"\"" \o module_docstring \o "\"\"\"", "">> ELSE <<>>)
             \o (IF imports # <<>>
                 THEN ConcatTexts(FirstN(imports, 10))
                      \o (IF Len(imports) > 10
                          THEN <<"# ... and " \o ToString(Len(imports) - 10) \o " more imports">>
                          ELSE <<>>)
                      \o <<"">>
                 ELSE <<>>)
             \o ConcatTexts([k \in 1..Len(tree.body) |-> Part(tree.body[k])]))

_heavy_condense_python(content, tree) ==
    LET lines == content
        essential_imports ==
            SelectSeq(ImportSegments(lines, tree), LAMBDA import_line :
                \E keyword \in {"from __future__", "import os", "import sys"} :
                    \E k \in 1..Len(import_line) : Contains(Lower(import_line[k]), keyword))
        Methods(node) == SelectSeq(node.items, LAMBDA item :
                             IsPlainFunctionDef(item)
                             /\ item.name \in {"__init__", "__call__", "main"})
        Part(node) ==
            IF node.type = "ClassDef"
            THEN _get_class_signature(node, lines)
                 \o ConcatTexts([k \in 1..Len(Methods(node)) |->
                        IndentFirst(_get_function_signature(Methods(node)[k], lines))])
                 \o <<"">>
            ELSE IF IsPlainFunctionDef(node) THEN _get_function_signature(node, lines)
            ELSE <<>>
    IN  Join((IF essential_imports # <<>>
              THEN ConcatTexts(FirstN(essential_imports, 5)) \o <<"">> ELSE <<>>)
             \o ConcatTexts([k \in 1..Len(tree.body) |-> Part(tree.body[k])]))

\* ", ".join(names)
RECURSIVE CommaJoin(_)
CommaJoin(names) ==
    IF names = <<>> THEN ""
    ELSE IF Len(names) = 1 THEN names[1]
    ELSE names[1] \o ", " \o CommaJoin(Tail(names))

_maximum_condense_python(content, tree) ==
    LET class_nodes == SelectSeq(tree.body, LAMBDA node : node.type = "ClassDef")
        MethodNames(node) ==
            LET methods == SelectSeq(node.items, IsPlainFunctionDef)
            IN  [k \in 1..Len(methods) |-> methods[k].name]
        classes == [k \in 1..Len(class_nodes) |->
                       "class " \o class_nodes[k].name \o ": # Methods: "
                       \o CommaJoin(FirstN(MethodNames(class_nodes[k]), 5))]
        function_nodes == SelectSeq(tree.body, IsPlainFunctionDef)
        functions == [k \in 1..Len(function_nodes) |-> "def " \o function_nodes[k].name \o "(...)"]
    IN  Join((IF classes # <<>> THEN <<"# Classes:">> \o classes \o <<"">> ELSE <<>>)
             \o (IF functions # <<>>
                 THEN <<"# Functions:">> \o FirstN(functions, 10)
                      \o (IF Len(functions) > 10
                          THEN <<"# ... and " \o ToString(Len(functions) - 10) \o " more functions">>
                          ELSE <<>>)
                 ELSE <<>>))

(***************************************************************************)
(* ProgressiveCondenser._condense_python_content and _apply_condensing     *)
(***************************************************************************)
\* The Python condenser without its except clause: the SyntaxError of
\* ast.parse reaches the caller.
_condense_python_content_no_except(content, level, priority) ==
    Only({IF ~tree.ok THEN [exc |-> "SyntaxError", val |-> content]
          ELSE [exc |-> "none",
                val |-> IF level = LIGHT THEN _light_condense_python(content, tree)
                        ELSE IF level = MODERATE
                        THEN _moderate_condense_python(content, tree, priority)
                        ELSE IF level = HEAVY THEN _heavy_condense_python(content, tree)
                        ELSE IF level = MAXIMUM THEN _maximum_condense_python(content, tree)
                        ELSE content] :
        tree \in {ast_parse(content)}})

_condense_python_content(content, level, priority) ==
    Only({IF ~tree.ok THEN [exc |-> "none", val |-> _condense_generic_content(content, level)]
          ELSE [exc |-> "none",
                val |-> IF level = LIGHT THEN _light_condense_python(content, tree)
                        ELSE IF level = MODERATE
                        THEN _moderate_condense_python(content, tree, priority)
                        ELSE IF level = HEAVY THEN _heavy_condense_python(content, tree)
                        ELSE IF level = MAXIMUM THEN _maximum_condense_python(content, tree)
                        ELSE content] :
        tree \in {ast_parse(content)}})

(***************************************************************************)
(* Texts as one string, for the patterns that are matched against a whole  *)
(* file: "\n".join(lines) and text.split("\n").                            *)
(***************************************************************************)
RECURSIVE JoinText(_)
JoinText(lines) ==
    IF lines = <<>> THEN ""
    ELSE IF Len(lines) = 1 THEN lines[1]
    ELSE lines[1] \o "\n" \o JoinText(Tail(lines))

\* s.find(sub, from): the first position (1-based) at or after from where sub
\* occurs, 0 when there is none.
FirstIndex(s, sub, from) ==
    LET hits == {k \in from..(Len(s) - Len(sub) + 1) : SubSeq(s, k, k + Len(sub) - 1) = sub}
    IN  IF hits = {} THEN 0 ELSE CHOOSE k \in hits : \A k2 \in hits : k <= k2

RECURSIVE SplitText(_)
SplitText(s) ==
    Only({IF nl = 0 THEN <<s>>
          ELSE <<SubSeq(s, 1, nl - 1)>> \o SplitText(SubSeq(s, nl + 1, Len(s))) :
        nl \in {FirstIndex(s, "\n", 1)}})

(***************************************************************************)
(* re.findall and re.sub on a whole text.  A pattern is an operator from a *)
(* set of start positions to the set of positions after a match; the match *)
(* the regex engine picks at a start position is the longest one for the   *)
(* patterns below (their optional groups and greedy runs are followed by   *)
(* text that cannot match when the group or a longer run could).           *)
(***************************************************************************)
\* (?:lit\s+)?
OptionalWord(s, P, lit) == P \cup Spaces1(s, Lit(s, P, lit))

\* The position after the longest match, 0 when there is no match.
LongestEnd(ends) == IF ends = {} THEN 0 ELSE CHOOSE q \in ends : \A q2 \in ends : q >= q2

\* The least element of a set of positions, 0 for the empty set.
FirstOf(positions) ==
    IF positions = {} THEN 0 ELSE CHOOSE q \in positions : \A q2 \in positions : q <= q2

\* Non-overlapping matches from left to right, as re.findall returns them;
\* ends[p] is the position after the match that starts at p, or 0.
RECURSIVE ScanMatches(_, _, _)
ScanMatches(s, ends, p) ==
    Only({IF start = 0 THEN <<>>
          ELSE <<SubSeq(s, start, ends[start] - 1)>> \o ScanMatches(s, ends, ends[start]) :
        start \in {FirstOf({q \in p..Len(s) : ends[q] > 0})}})

findall(s, Pattern(_, _)) ==
    Only({ScanMatches(s, ends, 1) :
        ends \in {[p \in 1..Len(s) |-> LongestEnd(Pattern(s, {p}))]}})

\* re.sub(r"//.*$", "", content, flags=re.MULTILINE), line by line.
StripLineComments(lines) ==
    [k \in 1..Len(lines) |->
        Only({IF at = 0 THEN lines[k] ELSE SubSeq(lines[k], 1, at - 1) :
            at \in {FirstIndex(lines[k], "//", 1)}})]

\* re.sub(r"/\*.*?\*/", "", content, flags=re.DOTALL)
RECURSIVE StripBlockComments(_)
StripBlockComments(s) ==
    Only({IF open = 0 THEN s
          ELSE Only({IF close = 0 THEN s
                     ELSE SubSeq(s, 1, open - 1)
                          \o StripBlockComments(SubSeq(s, close + 2, Len(s))) :
                   close \in {FirstIndex(s, "*/", open + 2)}}) :
        open \in {FirstIndex(s, "/*", 1)}})

\* The last newline of the whitespace run that follows the newline at p, 0
\* when the run holds none.
BlankRunEnd(s, p) ==
    LET ends == {r \in (p + 1)..Len(s) :
                    /\ SubSeq(s, r, r) = "\n"
                    /\ \A j \in (p + 1)..(r - 1) : IsSpace(SubSeq(s, j, j))}
    IN  LongestEnd(ends)

\* re.sub(r"\n\s*\n", "\n", content): from p on, the text up to the next
\* newline that opens a run of blank lines, one newline for the run, and the
\* rest treated alike.
RECURSIVE CollapseBlankLines(_, _)
CollapseBlankLines(s, p) ==
    Only({IF start = 0 THEN SubSeq(s, p, Len(s))
          ELSE SubSeq(s, p, start) \o CollapseBlankLines(s, BlankRunEnd(s, start) + 1) :
        start \in {FirstOf({q \in p..Len(s) :
                                SubSeq(s, q, q) = "\n" /\ BlankRunEnd(s, q) > 0})}})

(***************************************************************************)
(* ProgressiveCondenser._condense_javascript_content                       *)
(***************************************************************************)
NotCloseParen(c) == c # ")"
NotNewline(c) == c # "\n"

\* (?:export\s+)?(?:async\s+)?function\s+\w+\([^)]*\)
JsFunctionSignature(s, P) ==
    Lit(s, Run0(s, Lit(s, Word1(s, Spaces1(s, Lit(s,
        OptionalWord(s, OptionalWord(s, P, "export"), "async"), "function"))), "("),
        NotCloseParen), ")")

\* (?:export\s+)?class\s+\w+(?:\s+extends\s+\w+)?
JsClassSignature(s, P) ==
    LET named == Word1(s, Spaces1(s, Lit(s, OptionalWord(s, P, "export"), "class")))
    IN  named \cup Word1(s, Spaces1(s, Lit(s, Spaces1(s, named), "extends")))

\* export\s+(?:default\s+)?(?:const|let|var|function|class)\s+\w+
JsExport(s, P) ==
    LET from == OptionalWord(s, Spaces1(s, Lit(s, P, "export")), "default")
    IN  Word1(s, Spaces1(s, Lit(s, from, "const") \cup Lit(s, from, "let")
                                \cup Lit(s, from, "var") \cup Lit(s, from, "function")
                                \cup Lit(s, from, "class")))

\* export\s+.*
JsExportLine(s, P) == Run0(s, Spaces1(s, Lit(s, P, "export")), NotNewline)

\* Lines 388-407: the matches of the three patterns, exports first.
JsSignatures(text) ==
    FirstN(findall(text, JsExport), 10) \o FirstN(findall(text, JsFunctionSignature), 10)
        \o findall(text, JsClassSignature)

_condense_javascript_content(content, level, priority) ==
    IF level = LIGHT
    THEN SplitText(CollapseBlankLines(
             StripBlockComments(JoinText(StripLineComments(content))), 1))
    ELSE IF level \in {MODERATE, HEAVY}
    THEN Only({SplitText(JoinText(JsSignatures(text))) : text \in {JoinText(content)}})
    ELSE Only({IF exports # <<>> THEN SplitText(JoinText(FirstN(exports, 5)))
               ELSE <<"// JavaScript/TypeScript module">> :
             exports \in {findall(JoinText(content), JsExportLine)}})

(***************************************************************************)
(* ProgressiveCondenser._condense_java_content                             *)
(***************************************************************************)
IsDottedNameChar(c) == IsWordChar(c) \/ c = "."
IsTypeChar(c) == IsWordChar(c) \/ c \in {"<", ">", "[", "]"}
IsInterfaceListChar(c) == IsWordChar(c) \/ c = "," \/ IsSpace(c)

\* package\s+[\w.]+;
JavaPackage(s, P) == Lit(s, Run1(s, Spaces1(s, Lit(s, P, "package")), IsDottedNameChar), ";")

\* import\s+[\w.]+;
JavaImport(s, P) == Lit(s, Run1(s, Spaces1(s, Lit(s, P, "import")), IsDottedNameChar), ";")

\* (?:public\s+)?class\s+\w+(?:\s+extends\s+\w+)?(?:\s+implements\s+[\w,\s]+)?
JavaClassSignature(s, P) ==
    LET named == Word1(s, Spaces1(s, Lit(s, OptionalWord(s, P, "public"), "class")))
        extended == named \cup Word1(s, Spaces1(s, Lit(s, Spaces1(s, named), "extends")))
    IN  extended \cup Run1(s, Spaces1(s, Lit(s, Spaces1(s, extended), "implements")),
                           IsInterfaceListChar)

\* (?:public|private|protected)?\s+(?:static\s+)?[\w<>\[\]]+\s+\w+\([^)]*\)
JavaMethodSignature(s, P) ==
    LET from == Spaces1(s, P \cup Lit(s, P, "public") \cup Lit(s, P, "private")
                             \cup Lit(s, P, "protected"))
    IN  Lit(s, Run0(s, Lit(s, Word1(s, Spaces1(s, Run1(s, OptionalWord(s, from, "static"),
                                                       IsTypeChar))), "("),
                    NotCloseParen), ")")

\* class\s+\w+
JavaClassName(s, P) == Word1(s, Spaces1(s, Lit(s, P, "class")))

\* Lines 428-449: the package, the imports, the classes and, at MODERATE
\* level, the methods.
JavaSignatures(text, level) ==
    FirstN(findall(text, JavaPackage), 1) \o FirstN(findall(text, JavaImport), 5)
        \o findall(text, JavaClassSignature)
        \o (IF level = MODERATE THEN FirstN(findall(text, JavaMethodSignature), 10) ELSE <<>>)

\* Lines 451-460: the package and the class names, as comments.
JavaOutline(text) ==
    FirstN(findall(text, JavaPackage), 1)
        \o Only({[k \in 1..Len(classes) |-> "// " \o classes[k]] :
                classes \in {findall(text, JavaClassName)}})

_condense_java_content(content, level, priority) ==
    IF level = LIGHT
    THEN SplitText(StripBlockComments(JoinText(StripLineComments(content))))
    ELSE IF level \in {MODERATE, HEAVY}
    THEN Only({SplitText(JoinText(JavaSignatures(text, level))) : text \in {JoinText(content)}})
    ELSE Only({SplitText(JoinText(JavaOutline(text))) : text \in {JoinText(content)}})

(***************************************************************************)
(* ProgressiveCondenser._apply_condensing                                  *)
(***************************************************************************)
\* The strategy for .json/.yaml/.yml files (lines 215-216) is not part of
\* the model: the condenser is never called on a file name with one of these
\* suffixes.
_apply_condensing(content, name, level, priority) ==
    IF level = NONE THEN [exc |-> "none", val |-> content]
    ELSE IF FileSuffix(name) = ".py" THEN _condense_python_content(content, level, priority)
    ELSE IF FileSuffix(name) \in {".js", ".ts", ".jsx", ".tsx"}
    THEN [exc |-> "none", val |-> _condense_javascript_content(content, level, priority)]
    ELSE IF FileSuffix(name) = ".java"
    THEN [exc |-> "none", val |-> _condense_java_content(content, level, priority)]
    ELSE [exc |-> "none", val |-> _condense_generic_content(content, level)]

(***************************************************************************)
(* ProgressiveCondenser.condense_with_budget                               *)
(***************************************************************************)
CondenseRet(exc, content, info) ==
    [op |-> "condense_with_budget", exc |-> exc, content |-> content, info |-> info]

\* stats["condensing_levels_used"][level] = stats[...].get(level, 0) + 1
CountLevel(used, level) ==
    [l \in DOMAIN used \cup {level} |->
        IF l = level THEN (IF level \in DOMAIN used THEN used[level] ELSE 0) + 1 ELSE used[l]]

\* Lines 68-90: the measurement of the result, the stats and the info.
CondenseResult(self, estimated_tokens, priority, level, condensed_content, final_tokens) ==
    [ret |-> CondenseRet("none", condensed_content,
                [level |-> level,
                 original_tokens |-> estimated_tokens,
                 final_tokens |-> final_tokens,
                 tokens_saved |-> estimated_tokens - final_tokens,
                 compression_ratio |-> IF estimated_tokens > 0
                                       THEN [num |-> final_tokens, den |-> estimated_tokens]
                                       ELSE [num |-> 1, den |-> 1],
                 priority |-> priority]),
     stats |-> [files_processed |-> self.stats.files_processed + 1,
                tokens_saved |-> self.stats.tokens_saved + (estimated_tokens - final_tokens),
                condensing_levels_used |->
                    CountLevel(self.stats.condensing_levels_used, level)]]

\* Lines 63-66: the strategy is applied at the level selected.
CondenseAtLevel(self, content, name, priority, estimated_tokens, target) ==
    IF target.exc # "none"
    THEN [ret |-> CondenseRet(target.exc, <<>>, [level |-> NONE]), stats |-> self.stats]
    ELSE Only({IF applied.exc # "none"
               THEN [ret |-> CondenseRet(applied.exc, <<>>, [level |-> NONE]),
                     stats |-> self.stats]
               ELSE CondenseResult(self, estimated_tokens, priority, target.val, applied.val,
                                   estimate_tokens_from_text(applied.val)) :
             applied \in {_apply_condensing(content, name, target.val, priority)}})

\* Lines 55-61: the estimate and the level.
CondenseEstimated(self, content, name, available_tokens, priority, estimated_tokens) ==
    Only({CondenseAtLevel(self, content, name, priority, estimated_tokens, target) :
        target \in {_determine_condensing_level(estimated_tokens, available_tokens, priority)}})

condense_with_budget(self, content, name, available_tokens, priority, estimated_arg) ==
    IF IsBlank(content)
    THEN [ret |-> CondenseRet("none", content, [level |-> NONE, tokens_saved |-> 0]),
          stats |-> self.stats]
    ELSE Only({CondenseEstimated(self, content, name, available_tokens, priority,
                                 estimated_tokens) :
             estimated_tokens \in {IF estimated_arg = None
                                   THEN estimate_tokens_from_text(content)
                                   ELSE estimated_arg}})

(***************************************************************************)
(* State.                                                                  *)
(***************************************************************************)
VARIABLES
    strategy,       \* SmartChunker.strategy (ChunkingStrategy)
    chunker_stats,  \* SmartChunker.stats
    stats,          \* ProgressiveCondenser.stats
    call,           \* the arguments of the last call
    ret,            \* what the last call returned or raised
    heap,           \* the dicts the constructors created, by address
    condensers,     \* the ProgressiveCondenser instance each worker owns
    chunkers,       \* the SmartChunker instance each worker owns
    pending,        \* the call each worker is inside of, or NoCall
    made,           \* history: what each worker's calls were and reported
    totals,         \* history: the stats of one instance given every call
    held,           \* the dict get_condensing_stats returned to each worker
    taken,          \* history: the contents of that dict when it was returned
    loop            \* the frame of a packer loop that is run step by step

workerVars == <<heap, condensers, chunkers, pending, made, totals, held, taken>>

vars == <<strategy, chunker_stats, stats, call, ret, workerVars, loop>>

NoCall == [op |-> "none"]

\* No packer loop is being stepped through.
NoLoop == [pc |-> "idle"]

Workers == {"w1", "w2"}

\* The worker holds no dict.
NoDict == [kind |-> "none"]

\* A dict display creates a new object: the heap gains one address.
NewObject(h, value) == [addr |-> Len(h) + 1, heap |-> Append(h, value)]

\* The stats dict as a class attribute: created once, every instance refers
\* to the same object.
ProgressiveCondenser__init__shared(h) ==
    IF \E a \in 1..Len(h) : "files_processed" \in DOMAIN h[a]
    THEN [self |-> [stats |-> CHOOSE a \in 1..Len(h) : "files_processed" \in DOMAIN h[a]],
          heap |-> h]
    ELSE Only({[self |-> [stats |-> o.addr], heap |-> o.heap] :
             o \in {NewObject(h, [files_processed |-> 0, tokens_saved |-> 0,
                                  condensing_levels_used |-> [l \in {} |-> 0]])}})

\* ProgressiveCondenser.__init__: self.stats is a dict created by the call.
ProgressiveCondenser__init__(h) ==
    Only({[self |-> [stats |-> o.addr], heap |-> o.heap] :
        o \in {NewObject(h, [files_processed |-> 0, tokens_saved |-> 0,
                             condensing_levels_used |-> [l \in {} |-> 0]])}})

\* SmartChunker.__init__: self.stats is a dict created by the call.
SmartChunker__init__(h, chunking_strategy) ==
    Only({[self |-> [strategy |-> chunking_strategy, stats |-> o.addr], heap |-> o.heap] :
        o \in {NewObject(h, [files_chunked |-> 0, total_chunks_created |-> 0,
                             context_preservations |-> 0, function_overlaps |-> 0])}})

\* Each worker constructs the condenser and the chunker it owns.
RECURSIVE Construct(_, _, _)
Construct(todo, built, chunking_strategy) ==
    IF todo = {} THEN built
    ELSE LET w == CHOOSE x \in todo : TRUE
             c == ProgressiveCondenser__init__(built.heap)
             k == SmartChunker__init__(c.heap, chunking_strategy)
         IN  Construct(todo \ {w},
                       [heap |-> k.heap,
                        condensers |-> built.condensers @@ (w :> c.self),
                        chunkers |-> built.chunkers @@ (w :> k.self)],
                       chunking_strategy)

\* What a worker's calls on its condenser and its chunker were so far
\* (history, not program state): the calls begun, the condenser calls with
\* non-blank content, the sum of the tokens_saved values the returned info
\* records reported, and the stats the worker's calls produce on instances
\* nobody else touches.
NoCallsMade ==
    [calls |-> 0, nonblank |-> 0, reported_saved |-> 0,
     condenser_alone |-> [files_processed |-> 0, tokens_saved |-> 0,
                          condensing_levels_used |-> [l \in {} |-> 0]],
     chunker_alone |-> [files_chunked |-> 0, total_chunks_created |-> 0,
                        context_preservations |-> 0, function_overlaps |-> 0]]

Init ==
    /\ strategy \in [include_context_headers : BOOLEAN, overlap_functions : BOOLEAN]
    /\ \E built \in {Construct(Workers, [heap |-> <<>>, condensers |-> <<>>,
                                          chunkers |-> <<>>], strategy)} :
           /\ heap = built.heap
           /\ condensers = built.condensers
           /\ chunkers = built.chunkers
    /\ pending = [w \in Workers |-> NoCall]
    /\ made = [w \in Workers |-> NoCallsMade]
    /\ held = [w \in Workers |-> NoDict]
    /\ taken = [w \in Workers |-> NoDict]
    /\ totals = [condenser |-> NoCallsMade.condenser_alone,
                 chunker |-> NoCallsMade.chunker_alone]
    /\ chunker_stats = [files_chunked |-> 0, total_chunks_created |-> 0,
                        context_preservations |-> 0, function_overlaps |-> 0]
    /\ stats = [files_processed |-> 0, tokens_saved |-> 0,
                condensing_levels_used |-> [l \in {} |-> 0]]
    /\ call = NoCall
    /\ ret = NoCall
    /\ loop = NoLoop

(***************************************************************************)
(* SmartChunker.chunk_with_context                                         *)
(***************************************************************************)
\* What a call leaves behind: the value returned (or the exception raised)
\* and the instance's stats.  packed and boundaries record the chunks before
\* enrichment and the boundaries the call discovered.
ChunkRet(exc, path, chunks, packed, boundaries) ==
    [op |-> "chunk_with_context", exc |-> exc, path |-> path, chunks |-> chunks,
     packed |-> packed, boundaries |-> boundaries]

\* Lines 105-113: the enrichment, the statistics and the return.
ChunkResult(self, dispatched, chunks) ==
    [ret |-> ChunkRet("none", "split", chunks, dispatched.val.packed, dispatched.val.boundaries),
     stats |-> [files_chunked |-> self.stats.files_chunked + 1,
                total_chunks_created |-> self.stats.total_chunks_created + Len(chunks),
                context_preservations |-> self.stats.context_preservations
                    + (IF self.strategy.include_context_headers /\ Len(chunks) > 1
                       THEN Len(chunks) ELSE 0),
                function_overlaps |-> self.stats.function_overlaps
                    + dispatched.val.function_overlaps]]

ChunkDispatched(self, name, dispatched) ==
    IF dispatched.exc # "none"
    THEN [ret |-> ChunkRet(dispatched.exc, "split", <<>>, <<>>, <<>>), stats |-> self.stats]
    ELSE Only({ChunkResult(self, dispatched, chunks) :
             chunks \in {IF self.strategy.include_context_headers
                         THEN add_continuation_context(dispatched.val.chunks, name)
                         ELSE dispatched.val.chunks}})

ChunkSized(self, content, name, max_tokens, total_tokens) ==
    IF total_tokens <= max_tokens
    THEN [ret |-> ChunkRet("none", "single",
                           <<Chunk(content, 1, 1, None, None, NoneStr, total_tokens)>>,
                           <<>>, <<>>),
          stats |-> self.stats]
    ELSE Only({ChunkDispatched(self, name, dispatched) :
             dispatched \in {DispatchChunks(content, FileSuffix(name), max_tokens,
                                            self.strategy)}})

chunk_with_context(self, content, name, max_tokens) ==
    IF IsBlank(content)
    THEN [ret |-> ChunkRet("none", "blank", <<>>, <<>>, <<>>), stats |-> self.stats]
    ELSE Only({ChunkSized(self, content, name, max_tokens, total_tokens) :
             total_tokens \in {estimate_tokens_from_text(content)}})

(***************************************************************************)
(* Inputs.                                                                 *)
(***************************************************************************)
RECURSIVE SeqsUpTo(_, _)
SeqsUpTo(S, n) ==
    IF n = 0 THEN {<<>>}
    ELSE LET shorter == SeqsUpTo(S, n - 1)
         IN  shorter \cup {Append(t, x) : t \in {u \in shorter : Len(u) = n - 1}, x \in S}

Texts(S) == SeqsUpTo(S, MaxLines) \ {<<>>}

PyLines == {"def f():", "class A:", "  def m():", "    y=2", "x = 1", ""}
TxtLines == {"x = 1", "def f():", ""}

JsLines == {"function g() {", "  k();", "}", "const h = (", ""}
JavaLines == {"class B {", "  void run() {", "    k();", "}", ""}

FileNames == {"a.py", "a.txt"}

\* The chunker is also called on JavaScript and Java files; the extension is
\* compared in lower case.
ChunkerFileNames == FileNames \cup {"a.JS", "a.java"}

LinesOf(name) ==
    CASE FileSuffix(name) = ".py" -> PyLines
      [] FileSuffix(name) = ".js" -> JsLines
      [] FileSuffix(name) = ".java" -> JavaLines
      [] OTHER -> TxtLines

Budgets == 0..MaxBudget

\* One call of the chunker on the instance of the state.
CallChunker(content, name, max_tokens) ==
    \E r \in {chunk_with_context([strategy |-> strategy, stats |-> chunker_stats],
                                 content, name, max_tokens)} :
        /\ call' = [op |-> "chunk_with_context", content |-> content, name |-> name,
                    max_tokens |-> max_tokens]
        /\ ret' = r.ret
        /\ chunker_stats' = r.stats
        /\ UNCHANGED <<strategy, stats, workerVars, loop>>

ChunkWithContext ==
    /\ call = NoCall
    /\ \E name \in ChunkerFileNames : \E content \in Texts(LinesOf(name)) :
       \E max_tokens \in Budgets :
           CallChunker(content, name, max_tokens)

\* One call of the condenser on the instance of the state.
CallCondenser(content, name, available_tokens, priority, estimated_arg) ==
    \E r \in {condense_with_budget([stats |-> stats], content, name, available_tokens,
                                   priority, estimated_arg)} :
        /\ call' = [op |-> "condense_with_budget", content |-> content, name |-> name,
                    available_tokens |-> available_tokens, priority |-> priority,
                    estimated_tokens |-> estimated_arg]
        /\ ret' = r.ret
        /\ stats' = r.stats
        /\ UNCHANGED <<strategy, chunker_stats, workerVars, loop>>

CondPyLines ==
    {"def f():", "    y=2", "class A:", "  def run():", "# note", "import os", "",
     "async def g():", "def h(a: int,", "      b): pass"}

CondLinesOf(name) == IF FileSuffix(name) = ".py" THEN CondPyLines ELSE TxtLines

AvailableTokens == -1..MaxBudget

EstimatedArgs == {None, 0}

CondenseWithBudget ==
    /\ call = NoCall
    /\ \E name \in FileNames : \E content \in SeqsUpTo(CondLinesOf(name), MaxCondLines) \ {<<>>} :
       \E available_tokens \in AvailableTokens : \E priority \in PriorityLevel :
       \E estimated_arg \in EstimatedArgs :
           CallCondenser(content, name, available_tokens, priority, estimated_arg)

(***************************************************************************)
(* ProgressiveCondenser.adjust_condensing_level                            *)
(***************************************************************************)
MaxTotalBudget == 5

\* levels.index(current_level): the position from 0, or Bad (ValueError).
LevelIndex(current_level) ==
    CASE current_level = NONE -> 0 [] current_level = LIGHT -> 1
      [] current_level = MODERATE -> 2 [] current_level = HEAVY -> 3
      [] current_level = MAXIMUM -> 4 [] OTHER -> Bad

LevelAt(index) ==
    CASE index = 0 -> NONE [] index = 1 -> LIGHT [] index = 2 -> MODERATE
      [] index = 3 -> HEAVY [] index = 4 -> MAXIMUM

_increase_condensing_level(current_level) ==
    IF LevelIndex(current_level) = Bad THEN MODERATE
    ELSE LevelAt(Min(LevelIndex(current_level) + 1, 5 - 1))

_decrease_condensing_level(current_level) ==
    IF LevelIndex(current_level) = Bad THEN MODERATE
    ELSE LevelAt(Max(LevelIndex(current_level) - 1, 0))

\* budget_usage_ratio is token_budget_used / total_budget, or 0 when
\* total_budget <= 0; as the fraction [num, den] with den > 0.
budget_usage_ratio(token_budget_used, total_budget) ==
    IF total_budget > 0 THEN [num |-> token_budget_used, den |-> total_budget]
    ELSE [num |-> 0, den |-> 1]

\* The comparison with 0.8 reads >= instead of >.
adjust_condensing_level_inclusive(current_content, current_level, token_budget_used, total_budget) ==
    Only({IF 10 * ratio.num >= 8 * ratio.den THEN _increase_condensing_level(current_level)
          ELSE IF 10 * ratio.num < 5 * ratio.den THEN _decrease_condensing_level(current_level)
          ELSE current_level :
        ratio \in {budget_usage_ratio(token_budget_used, total_budget)}})

\* ratio > 0.8 and ratio < 0.5 in exact arithmetic: the quotient of two ints
\* of this size and the literals 0.8 and 0.5 compare as floats the way the
\* fractions compare.
adjust_condensing_level(current_content, current_level, token_budget_used, total_budget) ==
    Only({IF 10 * ratio.num > 8 * ratio.den THEN _increase_condensing_level(current_level)
          ELSE IF 10 * ratio.num < 5 * ratio.den THEN _decrease_condensing_level(current_level)
          ELSE current_level :
        ratio \in {budget_usage_ratio(token_budget_used, total_budget)}})

\* The five levels and a string that is none of them.
CurrentLevels == {NONE, LIGHT, MODERATE, HEAVY, MAXIMUM, "unknown"}

AdjustCondensingLevel ==
    /\ call = NoCall
    /\ \E current_level \in CurrentLevels :
       \E token_budget_used \in 0..(MaxTotalBudget + 1) :
       \E total_budget \in -1..MaxTotalBudget :
           /\ call' = [op |-> "adjust_condensing_level", current_content |-> <<"x = 1">>,
                       current_level |-> current_level,
                       token_budget_used |-> token_budget_used,
                       total_budget |-> total_budget]
           /\ ret' = [op |-> "adjust_condensing_level", exc |-> "none",
                      val |-> adjust_condensing_level(<<"x = 1">>, current_level,
                                                      token_budget_used, total_budget)]
    /\ UNCHANGED <<strategy, chunker_stats, stats, workerVars, loop>>

(***************************************************************************)
(* SmartChunker.estimate_optimal_chunk_size: int(x * 1.2) and int(x * 0.8) *)
(* of an int x >= 0 are the quotients 12x div 10 and 8x div 10.            *)
(***************************************************************************)
MaxTargetChunks == 3

SizeRet(exc, val) == [op |-> "estimate_optimal_chunk_size", exc |-> exc, val |-> val]

\* The structured-source adjustment without its cap at half the budget.
AdjustedChunkSizeNoCap(suffix, base_chunk_size, total_token_budget) ==
    IF suffix = ".py" THEN (base_chunk_size * 12) \div 10
    ELSE IF suffix \in {".js", ".ts", ".jsx", ".tsx"}
    THEN Max((base_chunk_size * 8) \div 10, 500)
    ELSE base_chunk_size

\* Lines 669-678.
AdjustedChunkSize(suffix, base_chunk_size, total_token_budget) ==
    IF suffix = ".py" THEN Min((base_chunk_size * 12) \div 10, total_token_budget \div 2)
    ELSE IF suffix \in {".js", ".ts", ".jsx", ".tsx"}
    THEN Max((base_chunk_size * 8) \div 10, 500)
    ELSE base_chunk_size

estimate_optimal_chunk_size(self, content, name, total_token_budget, target_chunks) ==
    Only({[ret |-> IF total_tokens <= total_token_budget THEN SizeRet("none", total_tokens)
                   ELSE IF target_chunks = 0 THEN SizeRet("ZeroDivisionError", None)
                   ELSE SizeRet("none", AdjustedChunkSize(FileSuffix(name),
                                            total_token_budget \div target_chunks,
                                            total_token_budget)),
           stats |-> self.stats] :
        total_tokens \in {estimate_tokens_from_text(content)}})

\* s repeated 2^n times.
RECURSIVE Doubled(_, _)
Doubled(s, n) == IF n = 0 THEN s ELSE Doubled(s \o s, n - 1)

\* Contents of 1, 4 and 1280 tokens.
SizedContents == {<<"x = 1">>, <<"def f():", "    y=2">>, <<Doubled("0123456789", 9)>>}

SizedFileNames == {"a.py", "a.JS", "a.tsx", "a.txt"}

\* Budgets around the small contents, and around the floor of 500 below the
\* large one.
TotalBudgets == 0..MaxBudget \cup {626, 1279, 1280}

EstimateOptimalChunkSize ==
    /\ call = NoCall
    /\ \E content \in SizedContents : \E name \in SizedFileNames :
       \E total_token_budget \in TotalBudgets : \E target_chunks \in 0..MaxTargetChunks :
       \E r \in {estimate_optimal_chunk_size([strategy |-> strategy, stats |-> chunker_stats],
                                             content, name, total_token_budget, target_chunks)} :
           /\ call' = [op |-> "estimate_optimal_chunk_size", content |-> content, name |-> name,
                       total_token_budget |-> total_token_budget,
                       target_chunks |-> target_chunks]
           /\ ret' = r.ret
           /\ chunker_stats' = r.stats
    /\ UNCHANGED <<strategy, stats, workerVars, loop>>

(***************************************************************************)
(* ProgressiveCondenser.condense_function_selectively                      *)
(***************************************************************************)
MaxFnLines == 3

\* str.count(sub): the occurrences that do not overlap, from the left.
RECURSIVE CountOf(_, _)
CountOf(s, sub) ==
    IF Len(s) < Len(sub) THEN 0
    ELSE IF SubSeq(s, 1, Len(sub)) = sub
    THEN 1 + CountOf(SubSeq(s, Len(sub) + 1, Len(s)), sub)
    ELSE CountOf(SubSeq(s, 2, Len(s)), sub)

TripleDouble == "\"\"\""
TripleSingle == "'''"

IsTerminalStatement(stripped) ==
    \E keyword \in {"return", "raise", "yield", "assert"} : Contains(stripped, keyword)

IsControlFlowHeader(stripped) ==
    \E prefix \in {"if ", "elif ", "else:", "for ", "while ", "try:", "except", "finally:"} :
        StartsWith(stripped, prefix)

IsSignatureStart(stripped) == StartsWith(stripped, "def ") \/ StartsWith(stripped, "async def ")

\* Lines 699-742: the loop over the lines from line i on; docstring_quotes is
\* NoneStr until a docstring opens.
RECURSIVE StructureLoop(_, _, _, _, _)
StructureLoop(lines, i, result, in_docstring, docstring_quotes) ==
    IF i > Len(lines) THEN result
    ELSE IF IsSignatureStart(Strip(lines[i]))
    THEN StructureLoop(lines, i + 1, Append(result, lines[i]), in_docstring, docstring_quotes)
    ELSE IF ~in_docstring /\ (Contains(lines[i], TripleDouble) \/ Contains(lines[i], TripleSingle))
    THEN Only({StructureLoop(lines, i + 1, Append(result, lines[i]),
                             ~(CountOf(lines[i], quotes) >= 2), quotes) :
             quotes \in {IF Contains(lines[i], TripleDouble) THEN TripleDouble
                         ELSE TripleSingle}})
    ELSE IF in_docstring
    THEN StructureLoop(lines, i + 1, Append(result, lines[i]),
                       ~Contains(lines[i], docstring_quotes), docstring_quotes)
    ELSE IF IsTerminalStatement(Strip(lines[i])) \/ IsControlFlowHeader(Strip(lines[i]))
    THEN StructureLoop(lines, i + 1, Append(result, lines[i]), in_docstring, docstring_quotes)
    ELSE IF Strip(lines[i]) # "" /\ ~StartsWith(Strip(lines[i]), "#")
    THEN Append(result, "    # ... implementation details ...")
    ELSE StructureLoop(lines, i + 1, result, in_docstring, docstring_quotes)

_condense_function_preserve_structure(function_content, language) ==
    IF language = "python"
    THEN Join(StructureLoop(function_content, 1, <<>>, FALSE, NoneStr))
    ELSE IF Len(function_content) <= 10 THEN function_content
    ELSE FirstN(function_content, 5) \o <<"    // ... implementation ...">>
         \o LastN(function_content, 2)

_condense_function_minimal(function_content, language) ==
    LET lines == function_content
        declarations ==
            IF language = "python"
            THEN {k \in 1..Len(lines) : IsSignatureStart(Strip(lines[k]))}
            ELSE {k \in 1..Len(lines) :
                     \E keyword \in {"function", "def", "public", "private"} :
                         Contains(lines[k], keyword)}
    IN  IF declarations # {}
        THEN <<lines[CHOOSE k \in declarations : \A k2 \in declarations : k <= k2],
               IF language = "python" THEN "    # ... implementation ..."
               ELSE "    // ... implementation ...">>
        ELSE <<lines[1], "    # ...">>

condense_function_selectively(function_content, function_priority, available_tokens, language) ==
    IF estimate_tokens_from_text(function_content) <= available_tokens
    THEN function_content
    ELSE IF function_priority \in {"CRITICAL", "HIGH"}
    THEN _condense_function_preserve_structure(function_content, language)
    ELSE _condense_function_minimal(function_content, language)

\* A one-line and a two-line signature, a docstring, a control-flow header,
\* an ordinary statement, a terminal statement and a comment.
FnLines == {"def f():", "def f(", "    a):", "    \"\"\"Doc.\"\"\"", "    if a:", "    x = 1",
            "    return x", "    # note"}

CondenseFunctionSelectively ==
    /\ call = NoCall
    /\ \E function_content \in SeqsUpTo(FnLines, MaxFnLines) \ {<<>>} :
       \E function_priority \in PriorityLevel : \E available_tokens \in {0, MaxBudget} :
       \E language \in {"python", "java"} :
           /\ call' = [op |-> "condense_function_selectively",
                       function_content |-> function_content,
                       function_priority |-> function_priority,
                       available_tokens |-> available_tokens, language |-> language]
           /\ ret' = [op |-> "condense_function_selectively", exc |-> "none",
                      val |-> condense_function_selectively(function_content,
                                  function_priority, available_tokens, language)]
    /\ UNCHANGED <<strategy, chunker_stats, stats, workerVars, loop>>

(***************************************************************************)
(* cli.main, run by click with the arguments argv.  The collaborators      *)
(* (update checker, configuration, repository processor, the upgrade       *)
(* workflow the tests patch) are the environment: env says what they       *)
(* return or whether they raise, and the run is recorded as the calls made *)
(* to them and the process's exit code.                                    *)
(***************************************************************************)
MaxArgs == 2

\* The flag options the decorators of main declare (lines 453-494), with the
\* ones click adds.
DeclaredFlags ==
    {"--clipboard", "-v", "--verbose", "--init-ignore", "--smart-condensing",
     "--check-updates", "--disable-update-check"}

HasFlag(argv, flags) == \E k \in 1..Len(argv) : argv[k] \in flags

ExternalCall(fn, kwargs) == [fn |-> fn, kwargs |-> kwargs]

MainRet(exit_code, calls) == [op |-> "main", exc |-> "none", exit_code |-> exit_code, calls |-> calls]

\* The options --token-limit and --char-limit (lines 426-435, type=int), as
\* the argument "--name=value".  click converts the value with int().
LimitOptions == {"--token-limit", "--char-limit"}

OptionName(arg) ==
    IF FirstIndex(arg, "=", 1) = 0 THEN arg ELSE SubSeq(arg, 1, FirstIndex(arg, "=", 1) - 1)

OptionValue(arg) == SubSeq(arg, FirstIndex(arg, "=", 1) + 1, Len(arg))

DigitValue(c) ==
    CASE c = "0" -> 0 [] c = "1" -> 1 [] c = "2" -> 2 [] c = "3" -> 3 [] c = "4" -> 4
      [] c = "5" -> 5 [] c = "6" -> 6 [] c = "7" -> 7 [] c = "8" -> 8 [] c = "9" -> 9
      [] OTHER -> Bad

\* The value of a string of digits, Bad when it is empty or holds another
\* character.
RECURSIVE ParseDigits(_, _)
ParseDigits(text, acc) ==
    IF text = "" THEN acc
    ELSE IF DigitValue(SubSeq(text, 1, 1)) = Bad THEN Bad
    ELSE ParseDigits(SubSeq(text, 2, Len(text)), 10 * acc + DigitValue(SubSeq(text, 1, 1)))

\* int(text) for a decimal literal with an optional minus sign: <<n>>, or
\* <<>> when int() raises ValueError.
ParseInt(text) ==
    LET negative == Len(text) > 0 /\ SubSeq(text, 1, 1) = "-"
        digits == IF negative THEN SubSeq(text, 2, Len(text)) ELSE text
    IN  IF digits = "" \/ ParseDigits(digits, 0) = Bad THEN <<>>
        ELSE IF negative THEN <<0 - ParseDigits(digits, 0)>>
        ELSE <<ParseDigits(digits, 0)>>

IsLimitOption(arg) == FirstIndex(arg, "=", 1) > 0 /\ OptionName(arg) \in LimitOptions

\* The parameter main receives for the option: <<>> for None when the
\* option is absent, else <<n>> for the value of its last occurrence.
LimitOf(argv, name) ==
    LET given == SelectSeq(argv, LAMBDA arg : IsLimitOption(arg) /\ OptionName(arg) = name)
    IN  IF given = <<>> THEN <<>> ELSE ParseInt(OptionValue(given[Len(given)]))

\* if limit: -- neither None nor 0.
LimitGiven(limit) == limit # <<>> /\ limit[1] # 0

\* The test of lines 593 and 603 as "is not None".
LimitRejectedWhenNotNone(limit) == limit # <<>> /\ limit[1] <= 0

\* Lines 593-596 and 603-606: sys.exit(1) for a limit that is given and not
\* positive.
LimitRejected(limit) == LimitGiven(limit) /\ limit[1] <= 0

\* Lines 602 and 612: what config_obj holds after the option handling; <<>>
\* stands for the value Config.load left there.
StoredLimit(limit) == IF LimitGiven(limit) THEN limit ELSE <<>>

\* Lines 553-680: the configuration, the automatic update check, the option
\* handling, the processing and the output; an exception of the processing
\* is caught at line 676 and ends the process with code 1.
ProcessRepository(argv, env) ==
    LET token_limit == LimitOf(argv, "--token-limit")
        char_limit == LimitOf(argv, "--char-limit")
        loaded == <<ExternalCall("Config.load", <<>>)>>
                  \o (IF ~HasFlag(argv, {"--disable-update-check"}) /\ env.update_check_enabled
                      THEN <<ExternalCall("check_for_updates", [enabled |-> TRUE, force |-> FALSE])>>
                      ELSE <<>>)
    IN  IF LimitRejected(token_limit) \/ LimitRejected(char_limit) THEN MainRet(1, loaded)
        ELSE MainRet(IF env.io_raises THEN 1 ELSE 0,
                     loaded
                     \o <<ExternalCall("RepositoryProcessor.process",
                                       [token_limit |-> StoredLimit(token_limit),
                                        char_limit |-> StoredLimit(char_limit)])>>
                     \o (IF env.io_raises THEN <<>>
                         ELSE <<ExternalCall("Path.write_text", <<>>)>>))

\* click accepts a declared flag, and a limit option whose value int()
\* converts.
Declared(arg) ==
    \/ arg \in DeclaredFlags
    \/ IsLimitOption(arg) /\ ParseInt(OptionValue(arg)) # <<>>

\* click parses argv before main runs: an option that no decorator declares
\* is a usage error, exit code 2, and main is not entered.
main(argv, env) ==
    IF \E k \in 1..Len(argv) : ~Declared(argv[k]) THEN MainRet(2, <<>>)
    ELSE IF HasFlag(argv, {"--init-ignore"})
    THEN MainRet(IF env.io_raises THEN 1 ELSE 0,
                 <<ExternalCall("_generate_ignore_template", <<>>)>>)
    ELSE IF HasFlag(argv, {"--check-updates"})
    THEN MainRet(0, <<ExternalCall("check_for_updates", [enabled |-> TRUE, force |-> TRUE])>>)
    ELSE ProcessRepository(argv, env)

\* The options of the tests of the upgrade workflow, and options of main.
Arguments ==
    {"--upgrade-check", "--upgrade", "--yes", "--check-updates", "--init-ignore",
     "--disable-update-check", "-v",
     "--token-limit=0", "--token-limit=-1", "--token-limit=50", "--token-limit=x",
     "--char-limit=0", "--char-limit=-20", "--char-limit=500"}

\* What the collaborators do: writing or processing raises or not (line 334
\* and line 676 end the process with code 1), the configuration
\* enables the automatic check or not, and the (success, error) pair the
\* patched upgrade workflow returns.
Environments ==
    [io_raises : BOOLEAN, update_check_enabled : BOOLEAN,
     workflow_returns : {<<TRUE, NoneStr>>, <<FALSE, NoneStr>>, <<FALSE, "User cancelled">>}]

Main ==
    /\ call = NoCall
    /\ \E argv \in SeqsUpTo(Arguments, MaxArgs) : \E env \in Environments :
           /\ call' = [op |-> "main", argv |-> argv, env |-> env]
           /\ ret' = main(argv, env)
    /\ UNCHANGED <<strategy, chunker_stats, stats, workerVars, loop>>

(***************************************************************************)
(* RichUpgradeNotifier.confirm_upgrade.  click.confirm is the environment: *)
(* it returns the user's answer or raises.                                 *)
(***************************************************************************)
\* What the call of click.confirm at line 140 does: the answer, an exception
\* the handler of line 143 names, or another one (click.exceptions.Abort).
ClickConfirm ==
    [exc : {"none"}, val : BOOLEAN]
        \cup [exc : {"KeyboardInterrupt", "EOFError", "Abort"}, val : {FALSE}]

\* cancelled: the call printed the cancellation notice of line 144.
ConfirmRet(exc, val, cancelled) ==
    [op |-> "confirm_upgrade", exc |-> exc, val |-> val, cancelled |-> cancelled]

\* The handler names KeyboardInterrupt only.
confirm_upgrade_no_eof(version, answer) ==
    IF answer.exc = "none" THEN ConfirmRet("none", answer.val, FALSE)
    ELSE IF answer.exc \in {"KeyboardInterrupt"}
    THEN ConfirmRet("none", FALSE, TRUE)
    ELSE ConfirmRet(answer.exc, FALSE, FALSE)

confirm_upgrade(version, answer) ==
    IF answer.exc = "none" THEN ConfirmRet("none", answer.val, FALSE)
    ELSE IF answer.exc \in {"KeyboardInterrupt", "EOFError"}
    THEN ConfirmRet("none", FALSE, TRUE)
    ELSE ConfirmRet(answer.exc, FALSE, FALSE)

ConfirmUpgrade ==
    /\ call = NoCall
    /\ \E version \in {"1.1.0"} : \E answer \in ClickConfirm :
           /\ call' = [op |-> "confirm_upgrade", version |-> version, answer |-> answer]
           /\ ret' = confirm_upgrade(version, answer)
    /\ UNCHANGED <<strategy, chunker_stats, stats, workerVars, loop>>

(***************************************************************************)
(* condense_with_budget on JavaScript/TypeScript and Java files.  The      *)
(* contents repeat a declaration up to MaxItems times, and the caller's    *)
(* estimate selects the level: with 4 tokens available, an estimate of 5,  *)
(* 8, 12 or 20 tokens asks for a compression of 1.25, 2, 3 or 5.           *)
(***************************************************************************)
MaxItems == 11

RECURSIVE Repeat(_, _)
Repeat(line, n) == IF n <= 0 THEN <<>> ELSE <<line>> \o Repeat(line, n - 1)

JsSourceLines ==
    {"export class A {}", "class A extends B {}", "function g() {}",
     "export const x = 1; // one", "/* note */", ""}

JavaSourceLines ==
    {"package p.q;", "import a.b;", "public class B implements I {", "  void run() {}",
     "class C {} // c", "/* note */"}

BraceFileNames == {"a.TSX", "a.java"}

BraceLinesOf(name) == IF FileSuffix(name) = ".java" THEN JavaSourceLines ELSE JsSourceLines

\* One declaration once or MaxItems times, then possibly another one.
BraceContents(lines) ==
    {Repeat(l1, n1) \o Repeat(l2, n2) :
        l1 \in lines, n1 \in {1, MaxItems}, l2 \in lines, n2 \in {0, 1}}

\* Priority and estimate for LIGHT, MODERATE, HEAVY and MAXIMUM.
BraceLevels == {<<"HIGH", 5>>, <<"LOW", 8>>, <<"LOW", 12>>, <<"LOW", 20>>}

CondenseBraceLanguage ==
    /\ call = NoCall
    /\ \E name \in BraceFileNames : \E content \in BraceContents(BraceLinesOf(name)) :
       \E level \in BraceLevels :
           CallCondenser(content, name, 4, level[1], level[2])

(***************************************************************************)
(* homebrew_checker.  subprocess.run and urlopen are the environment: each *)
(* raises, or returns a result the code inspects and parses.               *)
(***************************************************************************)
\* [\d.]
IsVersionChar(c) == c \in {"0", "1", "2", "3", "4", "5", "6", "7", "8", "9", "."}

\* The first non-empty value f has on the positions from lo to hi, taken in
\* the order the regex engine tries them (upwards, or downwards when greedy).
RECURSIVE FirstMatchUp(_, _, _)
FirstMatchUp(f(_), lo, hi) ==
    IF lo > hi THEN <<>>
    ELSE IF f(lo) # <<>> THEN f(lo)
    ELSE FirstMatchUp(f, lo + 1, hi)

RECURSIVE FirstMatchDown(_, _, _)
FirstMatchDown(f(_), lo, hi) ==
    IF hi < lo THEN <<>>
    ELSE IF f(hi) # <<>> THEN f(hi)
    ELSE FirstMatchDown(f, lo, hi - 1)

\* re.search(r"\(([\d.]+)\)\s*<\s*([\d.]+)", s): the two groups of the
\* leftmost match, <<>> when there is none.
OutdatedMatchAt(s, p) ==
    LET g1 == p + 1
        e1 == RunEnd(s, g1, IsVersionChar)
        lt == RunEnd(s, e1 + 1, IsSpace)
        g2 == RunEnd(s, lt + 1, IsSpace)
        e2 == RunEnd(s, g2, IsVersionChar)
    IN  IF Lit(s, {p}, "(") = {} \/ e1 = g1 \/ Lit(s, {e1}, ")") = {} THEN <<>>
        ELSE IF Lit(s, {lt}, "<") = {} \/ e2 = g2 THEN <<>>
        ELSE <<SubSeq(s, g1, e1 - 1), SubSeq(s, g2, e2 - 1)>>

SearchOutdated(s) == LET At(p) == OutdatedMatchAt(s, p) IN FirstMatchUp(At, 1, Len(s))

\* re.search(r'version\s+"([\d.]+)"', s)
VersionMatchAt(s, p) ==
    LET sp == p + Len("version")
        q1 == RunEnd(s, sp, IsSpace)
        e  == RunEnd(s, q1 + 1, IsVersionChar)
    IN  IF Lit(s, {p}, "version") = {} \/ q1 = sp \/ Lit(s, {q1}, "\"") = {} THEN <<>>
        ELSE IF e = q1 + 1 \/ Lit(s, {e}, "\"") = {} THEN <<>>
        ELSE <<SubSeq(s, q1 + 1, e - 1)>>

SearchVersion(s) == LET At(p) == VersionMatchAt(s, p) IN FirstMatchUp(At, 1, Len(s))

\* re.search(r'url\s+"[^"]*folder2md4llms[/-]([\d.]+)\.tar\.gz"', s).  [^"]*
\* and [\d.]+ are greedy and give characters back until the rest matches.
IsNotQuote(c) == c # "\""

UrlVersionAt(s, g) ==
    LET Cut(e) == IF e > g /\ Lit(s, {e}, ".tar.gz\"") # {} THEN <<SubSeq(s, g, e - 1)>> ELSE <<>>
    IN  FirstMatchDown(Cut, g + 1, RunEnd(s, g, IsVersionChar))

UrlNameAt(s, n) ==
    LET sep == n + Len("folder2md4llms")
    IN  IF Lit(s, {n}, "folder2md4llms") = {} \/ Lit(s, {sep}, "/") \cup Lit(s, {sep}, "-") = {}
        THEN <<>>
        ELSE UrlVersionAt(s, sep + 1)

UrlMatchAt(s, p) ==
    LET sp == p + Len("url")
        q1 == RunEnd(s, sp, IsSpace)
        Name(n) == UrlNameAt(s, n)
    IN  IF Lit(s, {p}, "url") = {} \/ q1 = sp \/ Lit(s, {q1}, "\"") = {} THEN <<>>
        ELSE FirstMatchDown(Name, q1 + 1, RunEnd(s, q1 + 1, IsNotQuote))

SearchUrl(s) == LET At(p) == UrlMatchAt(s, p) IN FirstMatchUp(At, 1, Len(s))

\* What subprocess.run(["brew", "outdated", "--verbose", package], ...) does.
BrewRuns ==
    [exc : {"FileNotFoundError", "TimeoutExpired", "PermissionError"},
     returncode : {0}, stdout : {""}]
        \cup [exc : {"none"}, returncode : {0, 1},
              stdout : {"f (0.2.1) < 0.2.2\n", "f (0.2.1)<0.2.1", "f (0.2.1) != 0.2.2", "(1.0) <\t1..0 x",
                        ""}]

\* What urlopen(req, timeout=timeout) and the read of the response do.
FormulaFetches ==
    [exc : {"URLError", "UnicodeDecodeError"}, status : {200}, content : {""}]
        \cup [exc : {"none"}, status : {200, 404},
              content : {"  version \"0.2.2\"\n", "url \"h/folder2md4llms-0.2.1.tar.gz\"",
                         "url \"folder2md4llms/x/folder2md4llms/1.0..tar.gz\"",
                         "version '1.0'\nurl  \"h/folder2md4llms-0.3.tar.gz\"\nversion \"0.2\"",
                         "url \"h/folder2md4llms_0.2.2.tar.gz\"", "class F < Formula"}]

\* The result of a checker: a value, or the exception it lets out.
Returned(val) == [exc |-> "none", val |-> val]

Raised(exc) == [exc |-> exc, val |-> NoneStr]

\* The handler names the two exceptions only, without Exception.
check_brew_outdated_two_handlers(run) ==
    IF run.exc # "none"
    THEN IF run.exc \in {"TimeoutExpired", "FileNotFoundError"} THEN Returned(<<>>) ELSE Raised(run.exc)
    ELSE IF run.returncode # 0 THEN Returned(<<>>)
    ELSE Returned(SearchOutdated(Strip(run.stdout)))

\* <<current_version, latest_version>>, or <<>> for None.  Exception in the
\* handler's tuple covers every exception the run raises.
check_brew_outdated(run) ==
    IF run.exc # "none"
    THEN Returned(<<>>)
    ELSE IF run.returncode # 0 THEN Returned(<<>>)
    ELSE Returned(SearchOutdated(Strip(run.stdout)))

\* <<version>>, or <<>> for None.
check_formula_github(fetch) ==
    IF fetch.exc # "none" THEN Returned(<<>>)
    ELSE IF fetch.status # 200 THEN Returned(<<>>)
    ELSE IF SearchVersion(fetch.content) # <<>> THEN Returned(SearchVersion(fetch.content))
    ELSE Returned(SearchUrl(fetch.content))

\* consulted lists the sources in the order they were asked; val is
\* <<has_update, latest>>, or <<>> for None.
UpdateRet(exc, val, consulted) ==
    [op |-> "check_homebrew_update", exc |-> exc, val |-> val, consulted |-> consulted]

check_homebrew_update(current_version, run, fetch) ==
    LET brew_result == check_brew_outdated(run)
        formula_version == check_formula_github(fetch)
    IN  IF brew_result.exc # "none" THEN UpdateRet(brew_result.exc, <<>>, <<"brew">>)
        ELSE IF brew_result.val # <<>>
        THEN UpdateRet("none", <<brew_result.val[2] # current_version, brew_result.val[2]>>, <<"brew">>)
        ELSE IF formula_version.exc # "none"
        THEN UpdateRet(formula_version.exc, <<>>, <<"brew", "github">>)
        ELSE IF formula_version.val # <<>>
        THEN UpdateRet("none", <<formula_version.val[1] # current_version, formula_version.val[1]>>,
                       <<"brew", "github">>)
        ELSE UpdateRet("none", <<>>, <<"brew", "github">>)

CheckHomebrewUpdate ==
    /\ call = NoCall
    /\ \E current_version \in {"0.2.1", "0.2.2"} : \E run \in BrewRuns : \E fetch \in FormulaFetches :
           /\ call' = [op |-> "check_homebrew_update", current_version |-> current_version,
                       run |-> run, fetch |-> fetch]
           /\ ret' = check_homebrew_update(current_version, run, fetch)
    /\ UNCHANGED <<strategy, chunker_stats, stats, workerVars, loop>>

Next ==
    \/ ChunkWithContext
    \/ CondenseWithBudget
    \/ AdjustCondensingLevel
    \/ EstimateOptimalChunkSize
    \/ CondenseFunctionSelectively
    \/ Main
    \/ ConfirmUpgrade
    \/ CondenseBraceLanguage
    \/ CheckHomebrewUpdate

Spec == Init /\ [][Next]_vars

(***************************************************************************)
(* Properties of condense_with_budget.                                     *)
(***************************************************************************)
CondenserCalled == call.op = "condense_with_budget"

CondenserReturned == CondenserCalled /\ ret.exc = "none"

\* The estimate the call works with: the argument, or the estimator's value
\* for the content when the argument is None.
EstimatedOfCall ==
    IF call.estimated_tokens = None THEN estimate_tokens_from_text(call.content)
    ELSE call.estimated_tokens

\* The levels from the least to the most aggressive.
Aggressiveness(level) ==
    CASE level = NONE -> 0 [] level = LIGHT -> 1 [] level = MODERATE -> 2
      [] level = HEAVY -> 3 [] level = MAXIMUM -> 4

\* The priorities from the least to the most important.
Importance(priority) ==
    CASE priority = "LOW" -> 1 [] priority = "MEDIUM" -> 2
      [] priority = "HIGH" -> 3 [] priority = "CRITICAL" -> 4

\* C1: for non-blank content, any priority and any file name, when
\* available_tokens >= estimated_tokens the call returns, reports level NONE
\* and returns the input unchanged.
C1_EnoughBudgetKeepsContent ==
    (CondenserCalled /\ ~IsBlank(call.content) /\ call.available_tokens >= EstimatedOfCall)
        => /\ ret.exc = "none"
           /\ ret.info.level = NONE
           /\ ret.content = call.content

C1_Witness ==
    /\ CondenserReturned
    /\ ~IsBlank(call.content)
    /\ EstimatedOfCall > 0
    /\ call.available_tokens >= EstimatedOfCall
    /\ call.priority = "LOW"
    /\ ret.info.level = NONE
    /\ ret.content = call.content

\* C2 (as claimed): at the same estimated and available tokens, the level
\* selected for the call's priority is never more aggressive than the level
\* selected for any less important priority.
C2_LevelMonotoneInPriority ==
    (CondenserReturned /\ ~IsBlank(call.content))
        => \A p2 \in PriorityLevel :
               Importance(call.priority) > Importance(p2)
                   => Aggressiveness(ret.info.level)
                      <= Aggressiveness(_determine_condensing_level(
                             EstimatedOfCall, call.available_tokens, p2).val)

\* The threshold table of the specification, r = num / den with den > 0.
TableLevel(priority, num, den) ==
    IF priority = "CRITICAL"
    THEN IF 10 * num <= 13 * den THEN LIGHT
         ELSE IF num <= 2 * den THEN MODERATE
         ELSE IF num <= 3 * den THEN HEAVY ELSE MAXIMUM
    ELSE IF priority = "HIGH"
    THEN IF 2 * num <= 3 * den THEN LIGHT
         ELSE IF 2 * num <= 5 * den THEN MODERATE
         ELSE IF num <= 4 * den THEN HEAVY ELSE MAXIMUM
    ELSE IF num <= 2 * den THEN MODERATE
         ELSE IF num <= 3 * den THEN HEAVY ELSE MAXIMUM

\* C3: for estimated_tokens > available_tokens > 0 the reported level is the
\* one the threshold table gives for r = estimated_tokens / available_tokens
\* and the priority.
C3_LevelFollowsThresholdTable ==
    (CondenserCalled /\ ~IsBlank(call.content)
     /\ EstimatedOfCall > call.available_tokens /\ call.available_tokens > 0)
        => /\ ret.exc = "none"
           /\ ret.info.level = TableLevel(call.priority, EstimatedOfCall, call.available_tokens)

C3_Witness ==
    /\ CondenserReturned
    /\ ~IsBlank(call.content)
    /\ call.priority = "HIGH"
    /\ call.available_tokens > 0
    /\ 2 * EstimatedOfCall > 5 * call.available_tokens
    /\ EstimatedOfCall <= 4 * call.available_tokens
    /\ ret.info.level = HEAVY

\* C4 (as claimed): for non-blank content with estimated_tokens > 0 and
\* available_tokens <= 0 the call returns without raising and condenses at
\* level MAXIMUM, whatever the priority.
C4_NoBudgetGivesMaximum ==
    (CondenserCalled /\ ~IsBlank(call.content)
     /\ EstimatedOfCall > 0 /\ call.available_tokens <= 0)
        => /\ ret.exc = "none"
           /\ ret.info.level = MAXIMUM

(***************************************************************************)
(* Properties of chunk_with_context.                                       *)
(***************************************************************************)
ChunkerReturned == ret.op = "chunk_with_context" /\ ret.exc = "none"

\* The call took the multi-chunk path: the content is not blank and its
\* estimate exceeds max_tokens.
ChunkerSplit == ChunkerReturned /\ ret.path = "split"

\* The Python source of the call does not parse.
CondenserParseFailed ==
    /\ CondenserCalled
    /\ FileSuffix(call.name) = ".py"
    /\ ~IsBlank(call.content)
    /\ ~ast_parse(call.content).ok

ChunkerParseFailed ==
    /\ call.op = "chunk_with_context"
    /\ FileSuffix(call.name) = ".py"
    /\ ~IsBlank(call.content)
    /\ estimate_tokens_from_text(call.content) > call.max_tokens
    /\ ~ast_parse(call.content).ok

\* C5: when the Python parse of the input fails, the condenser returns what
\* the generic text strategy gives at the level it selected, the chunker
\* returns the chunks of the generic line packer (with the part headers when
\* the strategy asks for them), and neither raises the parse failure.
C5_ParseFailureFallsBackToGeneric ==
    /\ CondenserParseFailed
           => /\ ret.exc # "SyntaxError"
              /\ (ret.exc = "none" /\ ret.info.level # NONE)
                     => ret.content = _condense_generic_content(call.content, ret.info.level)
    /\ ChunkerParseFailed
           => /\ ret.exc = "none"
              /\ ret.packed = _chunk_generic_content(call.content, call.max_tokens)
              /\ ret.chunks = IF strategy.include_context_headers
                              THEN add_continuation_context(ret.packed, call.name)
                              ELSE ret.packed

C5_Witness ==
    /\ CondenserParseFailed
    /\ ret.exc = "none"
    /\ ret.info.level = LIGHT
    /\ ret.content # call.content
    /\ ret.content = _condense_generic_content(call.content, LIGHT)

RECURSIVE ConcatContents(_, _)
ConcatContents(chunks, k) ==
    IF k > Len(chunks) THEN <<>> ELSE chunks[k].content \o ConcatContents(chunks, k + 1)

\* A packed chunk is a sub-chunk of an oversized span when it carries a
\* "(part k)" label; it is a later part (k > 1) when the chunk before it is a
\* sub-chunk of the same span.
IsSubChunk(c) == c.context_info # NoneStr

IsLaterPart(chunks, k) ==
    /\ k > 1
    /\ IsSubChunk(chunks[k])
    /\ IsSubChunk(chunks[k - 1])
    /\ chunks[k - 1].start_line = chunks[k].start_line

\* The source lines a packed chunk contributes: its content, without the
\* signature line that a later part repeats.
OwnLines(chunks, k) ==
    IF IsLaterPart(chunks, k) THEN Tail(chunks[k].content) ELSE chunks[k].content

RECURSIVE ConcatOwnLines(_, _)
ConcatOwnLines(chunks, k) ==
    IF k > Len(chunks) THEN <<>> ELSE OwnLines(chunks, k) \o ConcatOwnLines(chunks, k + 1)

\* C6 (as claimed): for an input whose estimate exceeds max_tokens, the
\* pre-enrichment contents of the chunks, joined in chunk_id order, are the
\* input: no source line is dropped or duplicated.
C6_RoundTripExact ==
    ChunkerSplit => ConcatContents(ret.packed, 1) = call.content

\* C6 (amended): the pre-enrichment contents reproduce the input once the
\* copy of the signature line that opens every later part of a split span is
\* left out; every source line is in exactly one chunk apart from these copies.
C6_RoundTripModuloSignature ==
    ChunkerSplit => ConcatOwnLines(ret.packed, 1) = call.content

C6_Witness ==
    /\ ChunkerSplit
    /\ \E k \in 1..Len(ret.packed) : IsLaterPart(ret.packed, k)
    /\ \E k \in 1..Len(ret.packed) : ~IsSubChunk(ret.packed[k])
    /\ ConcatContents(ret.packed, 1) # call.content
    /\ ConcatOwnLines(ret.packed, 1) = call.content

\* C7: the chunk_ids of a returned sequence are 1..N in list order and every
\* total_chunks is N.
C7_DenseChunkIds ==
    ChunkerReturned =>
        \A k \in 1..Len(ret.chunks) :
            ret.chunks[k].chunk_id = k /\ ret.chunks[k].total_chunks = Len(ret.chunks)

C7_Witness ==
    /\ ChunkerSplit
    /\ strategy.include_context_headers
    /\ Len(ret.chunks) >= 3
    /\ \E k \in 1..Len(ret.packed) : IsSubChunk(ret.packed[k])
    /\ \A k \in 1..Len(ret.chunks) :
           ret.chunks[k].chunk_id = k /\ ret.chunks[k].total_chunks = Len(ret.chunks)

\* The source lines (1-based) whose only copy is in packed chunk k.
RECURSIVE OwnOffset(_, _)
OwnOffset(chunks, k) ==
    IF k <= 1 THEN 0 ELSE OwnOffset(chunks, k - 1) + Len(OwnLines(chunks, k - 1))

CoveredBy(chunks, k) ==
    (OwnOffset(chunks, k) + 1)..(OwnOffset(chunks, k) + Len(OwnLines(chunks, k)))

\* The token cost of a boundary span on its own.
SpanCost(b) == estimate_tokens_from_text(Join(Slice(call.content, b.start, b.end + 1)))

\* C8 (as claimed): for content exceeding max_tokens, every discovered
\* boundary span whose own cost is at most max_tokens has all its lines in
\* one chunk.
C8_FittingSpanStaysWhole ==
    ChunkerSplit =>
        \A n \in 1..Len(ret.boundaries) :
            SpanCost(ret.boundaries[n]) <= call.max_tokens
                => \E k \in 1..Len(ret.packed) :
                       \A l \in (ret.boundaries[n].start + 1)..(ret.boundaries[n].end + 1) :
                           l \in CoveredBy(ret.packed, k)

\* The first line of the span a sub-chunk was cut from.
SignatureOf(c) == call.content[c.start_line + 1]

\* C9 (as claimed): the returned content of every sub-chunk of an oversized
\* span begins with the span's first line.
C9_ReturnedSubChunkStartsWithSignature ==
    ChunkerSplit =>
        \A k \in 1..Len(ret.packed) :
            IsSubChunk(ret.packed[k]) => ret.chunks[k].content[1] = SignatureOf(ret.packed[k])

\* Lines the enrichment passes add: comments and empty lines.
IsAnnotation(line) == line = "" \/ StartsWith(line, "# ")

\* C9 (amended): the pre-enrichment content of every sub-chunk of an
\* oversized span begins with the span's first line, and the returned content
\* is that content with nothing but annotation lines put before it (and a
\* footer after it).
C9_SubChunkStartsWithSignature ==
    ChunkerSplit =>
        \A k \in 1..Len(ret.packed) :
            IsSubChunk(ret.packed[k])
                => /\ ret.packed[k].content[1] = SignatureOf(ret.packed[k])
                   /\ \E p \in 0..Len(ret.chunks[k].content) :
                          /\ \A j \in 1..p : IsAnnotation(ret.chunks[k].content[j])
                          /\ p + Len(ret.packed[k].content) <= Len(ret.chunks[k].content)
                          /\ SubSeq(ret.chunks[k].content, p + 1,
                                    p + Len(ret.packed[k].content)) = ret.packed[k].content

C9_Witness ==
    /\ ChunkerSplit
    /\ strategy.include_context_headers
    /\ strategy.overlap_functions
    /\ \E k \in 1..Len(ret.packed) :
           /\ IsLaterPart(ret.packed, k)
           /\ Len(ret.packed[k].content) >= 2
           /\ ret.packed[k].content[1] = SignatureOf(ret.packed[k])
           /\ ret.chunks[k].content[1] # SignatureOf(ret.packed[k])

\* C10 (as claimed): no returned chunk's content is estimated above
\* max_tokens.
C10_ChunkWithinMaxTokens ==
    ChunkerReturned =>
        \A k \in 1..Len(ret.chunks) :
            estimate_tokens_from_text(ret.chunks[k].content) <= call.max_tokens

\* C11 (as claimed): every info record returned by condense_with_budget
\* carries a compression ratio, equal to final_tokens/original_tokens when
\* original_tokens > 0 and to 1 when original_tokens = 0; calls with blank
\* content and calls with a caller-supplied estimate of 0 included.
C11_InfoCarriesCompressionRatio ==
    CondenserReturned
        => /\ {"compression_ratio", "original_tokens", "final_tokens"} \subseteq DOMAIN ret.info
           /\ IF ret.info.original_tokens = 0
              THEN ret.info.compression_ratio.num = ret.info.compression_ratio.den
              ELSE ret.info.compression_ratio.num * ret.info.original_tokens
                       = ret.info.final_tokens * ret.info.compression_ratio.den

(***************************************************************************)
(* Workers: several calls on the instances the workers own.  A call is two *)
(* steps, so that calls of different workers overlap: the worker enters    *)
(* the call with its arguments, then the body runs to its return (or its   *)
(* raise) on the instance's stats as they are at that moment.              *)
(***************************************************************************)
MaxCalls == 2

\* Blank and non-blank content; an estimate below and above the budget.
WorkerCondenseCalls ==
    [op : {"condense_with_budget"}, content : {<<"">>, <<"# note">>}, name : {"a.py"},
     available_tokens : {0, MaxBudget}, priority : {"CRITICAL"}, estimated_tokens : {0, 5}]

WorkerChunkCalls ==
    [op : {"chunk_with_context"}, content : {<<"">>, <<"x = 1", "x = 1">>}, name : {"a.txt"},
     max_tokens : {1, MaxBudget}]

WorkerBegin(w) ==
    /\ pending[w] = NoCall
    /\ made[w].calls < MaxCalls
    /\ \E c \in WorkerCondenseCalls \cup WorkerChunkCalls :
           pending' = [pending EXCEPT ![w] = c]
    /\ made' = [made EXCEPT ![w].calls = @ + 1]
    /\ UNCHANGED <<strategy, chunker_stats, stats, call, ret, heap, condensers, chunkers, totals, loop, held, taken>>

\* The history after a call of the condenser: r is what the call left on the
\* worker's instance, alone what it leaves on an instance nobody else uses.
CondenseRecorded(m, c, r, alone) ==
    [m EXCEPT !.nonblank = IF IsBlank(c.content) THEN @ ELSE @ + 1,
              !.reported_saved = IF r.ret.exc = "none" THEN @ + r.ret.info.tokens_saved ELSE @,
              !.condenser_alone = alone.stats]

WorkerFinishCondense(w) ==
    /\ pending[w].op = "condense_with_budget"
    /\ \E c \in {pending[w]} :
       \E r \in {condense_with_budget([stats |-> heap[condensers[w].stats]], c.content, c.name,
                                      c.available_tokens, c.priority, c.estimated_tokens)} :
       \E alone \in {condense_with_budget([stats |-> made[w].condenser_alone], c.content, c.name,
                                          c.available_tokens, c.priority, c.estimated_tokens)} :
           /\ heap' = [heap EXCEPT ![condensers[w].stats] = r.stats]
           /\ made' = [made EXCEPT ![w] = CondenseRecorded(made[w], c, r, alone)]
           /\ totals' = [totals EXCEPT !.condenser =
                             condense_with_budget([stats |-> @], c.content, c.name,
                                 c.available_tokens, c.priority, c.estimated_tokens).stats]
    /\ pending' = [pending EXCEPT ![w] = NoCall]
    /\ UNCHANGED <<strategy, chunker_stats, stats, call, ret, condensers, chunkers, loop, held, taken>>

WorkerFinishChunk(w) ==
    /\ pending[w].op = "chunk_with_context"
    /\ \E c \in {pending[w]} :
       \E r \in {chunk_with_context([strategy |-> chunkers[w].strategy,
                                     stats |-> heap[chunkers[w].stats]],
                                    c.content, c.name, c.max_tokens)} :
           /\ heap' = [heap EXCEPT ![chunkers[w].stats] = r.stats]
           /\ made' = [made EXCEPT ![w].chunker_alone =
                           chunk_with_context([strategy |-> chunkers[w].strategy, stats |-> @],
                                              c.content, c.name, c.max_tokens).stats]
           /\ totals' = [totals EXCEPT !.chunker =
                             chunk_with_context([strategy |-> chunkers[w].strategy, stats |-> @],
                                                c.content, c.name, c.max_tokens).stats]
    /\ pending' = [pending EXCEPT ![w] = NoCall]
    /\ UNCHANGED <<strategy, chunker_stats, stats, call, ret, condensers, chunkers, loop, held, taken>>

NextWorkers ==
    \E w \in Workers : WorkerBegin(w) \/ WorkerFinishCondense(w) \/ WorkerFinishChunk(w)

SpecWorkers == Init /\ [][NextWorkers]_vars

(***************************************************************************)
(* Properties of the stats.                                                *)
(***************************************************************************)
\* get_condensing_stats of the worker's condenser: a copy of its stats.
get_condensing_stats(w) == heap[condensers[w].stats]

\* sum(stats["condensing_levels_used"].values())
RECURSIVE SumValues(_)
SumValues(d) ==
    IF DOMAIN d = {} THEN 0
    ELSE LET k == CHOOSE x \in DOMAIN d : TRUE
         IN  d[k] + SumValues([l \in DOMAIN d \ {k} |-> d[l]])

\* C12 (as claimed): after any sequence of condense_with_budget calls on one
\* instance, files_processed is the number of calls made with non-blank
\* content, tokens_saved is the sum of the tokens_saved values those calls
\* reported, and the histogram counts sum to files_processed.
C12_StatsCountNonBlankCalls ==
    \A w \in Workers :
        pending[w] = NoCall
            => /\ get_condensing_stats(w).files_processed = made[w].nonblank
               /\ get_condensing_stats(w).tokens_saved = made[w].reported_saved
               /\ SumValues(get_condensing_stats(w).condensing_levels_used)
                      = get_condensing_stats(w).files_processed

(***************************************************************************)
(* Properties of adjust_condensing_level.                                  *)
(***************************************************************************)
AdjustCalled == call.op = "adjust_condensing_level"

\* The level of the order NONE < LIGHT < MODERATE < HEAVY < MAXIMUM that is
\* `step` places from `level`, clamped at both ends.
StepFrom(level, step) ==
    CHOOSE l \in {NONE, LIGHT, MODERATE, HEAVY, MAXIMUM} :
        Aggressiveness(l) = Max(0, Min(4, Aggressiveness(level) + step))

\* tokens_used/total_budget > num/den, < num/den; a total_budget of 0 is the
\* ratio 0.
UsageAbove(used, total, num, den) ==
    IF total = 0 THEN FALSE
    ELSE IF total > 0 THEN used * den > num * total ELSE used * den < num * total

UsageBelow(used, total, num, den) ==
    IF total = 0 THEN TRUE
    ELSE IF total > 0 THEN used * den < num * total ELSE used * den > num * total

\* C13: for a current_level of the order, adjust_condensing_level returns the
\* level one step more aggressive when tokens_used/total_budget > 0.8, one
\* step less aggressive when the ratio < 0.5, and current_level otherwise;
\* the steps are clamped and total_budget = 0 is the ratio 0.
C13_AdjustFollowsUsageRatio ==
    (AdjustCalled /\ call.current_level \in {NONE, LIGHT, MODERATE, HEAVY, MAXIMUM})
        => /\ ret.exc = "none"
           /\ ret.val =
                 IF UsageAbove(call.token_budget_used, call.total_budget, 4, 5)
                 THEN StepFrom(call.current_level, 1)
                 ELSE IF UsageBelow(call.token_budget_used, call.total_budget, 1, 2)
                 THEN StepFrom(call.current_level, -1)
                 ELSE call.current_level

\* A ratio of exactly 0.8 keeps the level; 5/6 escalates.
C13_Witness ==
    /\ AdjustCalled
    /\ call.current_level = LIGHT
    /\ call.total_budget = 5
    /\ call.token_budget_used = 4
    /\ ret.val = LIGHT

(***************************************************************************)
(* Properties of estimate_optimal_chunk_size.                              *)
(***************************************************************************)
EstimateCalled == call.op = "estimate_optimal_chunk_size"

\* C14: estimate_optimal_chunk_size returns the content's token count when it
\* fits total_budget; otherwise, with base = total_budget div target_chunks,
\* min(floor(1.2 base), total_budget div 2) for .py, max(floor(0.8 base), 500)
\* for .js/.ts/.jsx/.tsx and base for every other type; the chunker's stats
\* stay as the constructor left them.
C14_OptimalChunkSize ==
    (EstimateCalled /\ call.target_chunks >= 1)
        => /\ ret.exc = "none"
           /\ LET tokens == estimate_tokens_from_text(call.content)
                  budget == call.total_token_budget
                  base == budget \div call.target_chunks
                  floor12 == CHOOSE n \in 0..(2 * base) : 10 * n <= 12 * base /\ 12 * base < 10 * (n + 1)
                  floor08 == CHOOSE n \in 0..base : 10 * n <= 8 * base /\ 8 * base < 10 * (n + 1)
              IN  ret.val = IF tokens <= budget THEN tokens
                            ELSE IF FileSuffix(call.name) = ".py"
                            THEN Min(floor12, budget \div 2)
                            ELSE IF FileSuffix(call.name) \in {".js", ".ts", ".jsx", ".tsx"}
                            THEN Max(floor08, 500)
                            ELSE base
           /\ chunker_stats = [files_chunked |-> 0, total_chunks_created |-> 0,
                               context_preservations |-> 0, function_overlaps |-> 0]

\* The cap at half the budget decides the size of a .py file.
C14_Witness ==
    /\ EstimateCalled
    /\ call.name = "a.py"
    /\ call.total_token_budget = 1279
    /\ call.target_chunks = 1
    /\ estimate_tokens_from_text(call.content) = 1280
    /\ ret.val = 639

(***************************************************************************)
(* Properties of condense_function_selectively.                            *)
(***************************************************************************)
SelectivelyCalled == call.op = "condense_function_selectively"

\* The last line of the signature that opens at line 1: the first line that
\* closes the parameter list; 0 when no line does.
SignatureEnd(lines) ==
    LET closing == {k \in 1..Len(lines) : EndsWith(Strip(lines[k]), "):")}
    IN  IF closing = {} THEN 0 ELSE CHOOSE k \in closing : \A k2 \in closing : k <= k2

\* The last line of the one-line docstring after the signature, or of the
\* signature when there is no docstring.
DocstringEnd(lines) ==
    LET s == SignatureEnd(lines)
    IN  IF s < Len(lines) /\ StartsWith(Strip(lines[s + 1]), TripleDouble)
             /\ CountOf(lines[s + 1], TripleDouble) = 2
        THEN s + 1 ELSE s

IsTerminalLine(line) ==
    \E keyword \in {"return", "raise", "yield", "assert"} :
        Strip(line) = keyword \/ StartsWith(Strip(line), keyword \o " ")

IsSkeletonLine(line) == IsControlFlowHeader(Strip(line)) \/ IsTerminalLine(line)

IsOrdinaryStatement(line) ==
    /\ Strip(line) # ""
    /\ ~StartsWith(Strip(line), "#")
    /\ ~IsSkeletonLine(line)

\* A function: a signature of one or more lines from line 1, then possibly a
\* one-line docstring, then a body of statements and comments with an
\* ordinary statement among them.
IsFunctionSource(lines) ==
    /\ IsSignatureStart(Strip(lines[1]))
    /\ SignatureEnd(lines) > 0
    /\ \A k \in 2..Len(lines) : ~IsSignatureStart(Strip(lines[k]))
    /\ \A k \in 1..(SignatureEnd(lines) - 1) : ~EndsWith(Strip(lines[k]), ":")
    /\ \A k \in (DocstringEnd(lines) + 1)..Len(lines) :
           ~Contains(lines[k], TripleDouble) /\ ~EndsWith(Strip(lines[k]), "):")
    /\ \E k \in (DocstringEnd(lines) + 1)..Len(lines) : IsOrdinaryStatement(lines[k])

FirstOrdinaryStatement(lines) ==
    CHOOSE k \in (DocstringEnd(lines) + 1)..Len(lines) :
        /\ IsOrdinaryStatement(lines[k])
        /\ \A k2 \in (DocstringEnd(lines) + 1)..(k - 1) : ~IsOrdinaryStatement(lines[k2])

\* C15 (as claimed): for a Python function that does not fit
\* available_tokens and has CRITICAL or HIGH priority, the output is, in
\* source order, every line of the signature, the docstring lines, the
\* control-flow header and return/raise/yield/assert lines before the first
\* ordinary statement, then one placeholder comment, and nothing after it.
C15_SkeletonUpToFirstOrdinaryStatement ==
    (/\ SelectivelyCalled
     /\ call.language = "python"
     /\ call.function_priority \in {"CRITICAL", "HIGH"}
     /\ estimate_tokens_from_text(call.function_content) > call.available_tokens
     /\ IsFunctionSource(call.function_content))
        => ret.val = SubSeq(call.function_content, 1, DocstringEnd(call.function_content))
                     \o SelectSeq(SubSeq(call.function_content,
                                         DocstringEnd(call.function_content) + 1,
                                         FirstOrdinaryStatement(call.function_content) - 1),
                                  IsSkeletonLine)
                     \o <<"    # ... implementation details ...">>

(***************************************************************************)
(* Properties of the command line.                                         *)
(***************************************************************************)
MainCalled == call.op = "main"

\* The calls of the upgrade workflow the run made.
WorkflowCalls == SelectSeq(ret.calls, LAMBDA c : c.fn = "handle_upgrade_workflow")

RepositoryProcessed == \E k \in 1..Len(ret.calls) : ret.calls[k].fn = "RepositoryProcessor.process"

\* C16 (as claimed): a run with --upgrade-check calls the upgrade workflow
\* exactly once, with package_name folder2md4llms, check_only true and
\* skip_confirmation false, processes no repository and exits with code 0
\* whatever the workflow returns.
C16_UpgradeCheckRunsWorkflowOnce ==
    (MainCalled /\ call.argv = <<"--upgrade-check">>)
        => /\ Len(WorkflowCalls) = 1
           /\ WorkflowCalls[1].kwargs.package_name = "folder2md4llms"
           /\ WorkflowCalls[1].kwargs.check_only
           /\ ~WorkflowCalls[1].kwargs.skip_confirmation
           /\ ~RepositoryProcessed
           /\ ret.exit_code = 0

\* C17 (as claimed): a run with --upgrade calls the upgrade workflow exactly
\* once with check_only false and skip_confirmation true exactly when --yes
\* is given; the exit code is 0 when the workflow reports success and 1 when
\* it reports failure, a cancellation included.
C17_UpgradeExitCodeFollowsWorkflow ==
    (MainCalled /\ call.argv \in {<<"--upgrade">>, <<"--upgrade", "--yes">>})
        => /\ Len(WorkflowCalls) = 1
           /\ ~WorkflowCalls[1].kwargs.check_only
           /\ WorkflowCalls[1].kwargs.skip_confirmation = HasFlag(call.argv, {"--yes"})
           /\ ret.exit_code = IF call.env.workflow_returns[1] THEN 0 ELSE 1

(***************************************************************************)
(* Properties of RichUpgradeNotifier.confirm_upgrade.                      *)
(***************************************************************************)
ConfirmCalled == call.op = "confirm_upgrade"

get_chunking_stats(w) == heap[chunkers[w].stats]

\* d.get(key, 0)
GetOrZero(d, key) == IF key \in DOMAIN d THEN d[key] ELSE 0

\* C19: with one condenser and one chunker per worker, under every
\* interleaving of the workers' calls each instance's counters are what its
\* worker's calls alone produce, and the counters of the instances summed
\* are the counters of one instance given all the calls.
C19_WorkerOwnedStatsAreIsolated ==
    /\ \A w \in Workers :
           /\ get_condensing_stats(w) = made[w].condenser_alone
           /\ get_chunking_stats(w) = made[w].chunker_alone
    /\ \A counter \in {"files_processed", "tokens_saved"} :
           SumValues([w \in Workers |-> get_condensing_stats(w)[counter]])
               = totals.condenser[counter]
    /\ \A level \in {NONE, LIGHT, MODERATE, HEAVY, MAXIMUM} :
           SumValues([w \in Workers |->
                         GetOrZero(get_condensing_stats(w).condensing_levels_used, level)])
               = GetOrZero(totals.condenser.condensing_levels_used, level)
    /\ \A counter \in {"files_chunked", "total_chunks_created", "context_preservations",
                       "function_overlaps"} :
           SumValues([w \in Workers |-> get_chunking_stats(w)[counter]])
               = totals.chunker[counter]

\* Both workers are inside a call, each after a call that changed the
\* counters of its own instances only.
C19_Witness ==
    /\ pending["w1"].op = "chunk_with_context"
    /\ pending["w2"].op = "condense_with_budget"
    /\ get_condensing_stats("w1").files_processed = 1
    /\ get_condensing_stats("w1").tokens_saved = 5
    /\ get_condensing_stats("w2").files_processed = 0
    /\ get_chunking_stats("w2").files_chunked = 1
    /\ get_chunking_stats("w1").files_chunked = 0
    /\ totals.condenser.files_processed = 1
    /\ totals.chunker.total_chunks_created >= 2

\* C20 (as claimed): under every setting of include_context_headers and
\* overlap_functions and on every path, every chunk chunk_with_context
\* returns has estimated_tokens equal to the estimator's value for the
\* chunk's returned content.
C20_EstimatedTokensOfFinalContent ==
    ChunkerReturned =>
        \A k \in 1..Len(ret.chunks) :
            ret.chunks[k].estimated_tokens = estimate_tokens_from_text(ret.chunks[k].content)

(***************************************************************************)
(* Labels of the sub-chunks of an oversized span.                          *)
(***************************************************************************)
\* A packed chunk cut out of an oversized span: the splitter is the only
\* producer that leaves end_line unset on the multi-chunk path.
IsSplitterChunk(c) == c.end_line = None

\* The position of packed chunk k among the sub-chunks of its span, from 1.
RECURSIVE PartNumber(_, _)
PartNumber(chunks, k) ==
    IF k > 1 /\ IsSplitterChunk(chunks[k - 1]) /\ chunks[k - 1].start_line = chunks[k].start_line
    THEN PartNumber(chunks, k - 1) + 1
    ELSE 1

\* "{boundary_type} {name} (part k)" for packed chunk k, from the span the
\* packer found at the chunk's start line.
ExpectedPartLabel(chunks, boundaries, k) ==
    LET b == BoundaryAt(boundaries, chunks[k].start_line)[1]
    IN  b.btype \o " " \o b.name \o " (part " \o ToString(PartNumber(chunks, k)) \o ")"

\* add_continuation_context rewrote the chunks of the call.
Relabelled == strategy.include_context_headers /\ Len(ret.chunks) > 1

\* C21 (as claimed): every sub-chunk of an oversized span is returned by
\* chunk_with_context with context_info "{boundary_type} {name} (part k)",
\* k counting the span's sub-chunks from 1 in order.
C21_ReturnedSubChunkKeepsPartLabel ==
    ChunkerSplit =>
        \A k \in 1..Len(ret.packed) :
            IsSplitterChunk(ret.packed[k])
                => ret.chunks[k].context_info
                       = ExpectedPartLabel(ret.packed, ret.boundaries, k)

\* C21 (amended): every sub-chunk of an oversized span leaves the packer with
\* context_info "{boundary_type} {name} (part k)", k counting the span's
\* sub-chunks from 1 in order; chunk_with_context returns it with that label
\* unless the continuation headers are added (include_context_headers set
\* and more than one chunk returned), and then with "Part i of N", i its
\* position in the returned sequence.
C21_SubChunkPartLabel ==
    ChunkerSplit =>
        \A k \in 1..Len(ret.packed) :
            IsSplitterChunk(ret.packed[k])
                => /\ ret.packed[k].context_info
                          = ExpectedPartLabel(ret.packed, ret.boundaries, k)
                   /\ ret.chunks[k].context_info
                          = IF Relabelled
                            THEN "Part " \o ToString(k) \o " of " \o ToString(Len(ret.chunks))
                            ELSE ExpectedPartLabel(ret.packed, ret.boundaries, k)

C21_Witness ==
    /\ ChunkerSplit
    /\ Relabelled
    /\ \E k \in 2..Len(ret.packed) :
           /\ IsSplitterChunk(ret.packed[k])
           /\ PartNumber(ret.packed, k) = 2
           /\ PartNumber(ret.packed, k) # k
           /\ ret.packed[k].context_info = ExpectedPartLabel(ret.packed, ret.boundaries, k)
           /\ ret.chunks[k].context_info # ret.packed[k].context_info

(***************************************************************************)
(* Signatures in the condensed Python output.                              *)
(***************************************************************************)
\* The call condensed Python source that parses, at one of the levels given.
CondensedPythonAt(levels) ==
    /\ CondenserReturned
    /\ FileSuffix(call.name) = ".py"
    /\ ~IsBlank(call.content)
    /\ ast_parse(call.content).ok
    /\ ret.info.level \in levels

\* a occurs in b as a subsequence: its elements in order, others in between.
RECURSIVE IsSubsequence(_, _)
IsSubsequence(a, b) ==
    IF a = <<>> THEN TRUE
    ELSE IF b = <<>> THEN FALSE
    ELSE IF Head(a) = Head(b) THEN IsSubsequence(Tail(a), Tail(b))
    ELSE IsSubsequence(a, Tail(b))

\* The definition line of every top-level class and function (plain or
\* async) of the source, in source order.
TopLevelDefinitionLines(lines) ==
    LET defs == SelectSeq(ast_parse(lines).body, LAMBDA node :
                    node.type \in {"ClassDef", "FunctionDef", "AsyncFunctionDef"})
    IN  [k \in 1..Len(defs) |-> lines[defs[k].lineno]]

\* C22 (as claimed): at MODERATE level on Python content that parses, the
\* output contains the signature of every top-level class and of every
\* top-level function definition, plain or async, in source order (stated
\* for the line the signature starts on).
C22_ModerateKeepsTopLevelSignatures ==
    CondensedPythonAt({MODERATE})
        => IsSubsequence(TopLevelDefinitionLines(call.content), ret.content)

\* The last physical line (1-based) of the header that starts on line
\* lineno: the first line from there on at whose end no bracket is open.
SignatureLastLine(lines, lineno) ==
    LET depths == LineDepths(lines, 1, <<>>)
    IN  CHOOSE j \in lineno..Len(lines) :
            depths[j] = 0 /\ \A j2 \in lineno..(j - 1) : depths[j2] # 0

\* sub occurs in text as a run of consecutive lines.
OccursIn(sub, text) ==
    \E p \in 0..(Len(text) - Len(sub)) : SubSeq(text, p + 1, p + Len(sub)) = sub

\* The top-level plain functions whose header spans several lines.
MultiLineFunctions(lines) ==
    SelectSeq(ast_parse(lines).body, LAMBDA node :
        node.type = "FunctionDef" /\ SignatureLastLine(lines, node.lineno) > node.lineno)

\* C23 (as claimed): at MODERATE and HEAVY level, the signature kept for a
\* function whose header spans several lines is every line from the
\* definition line up to and including the line with the colon that opens
\* the body, also when earlier header lines contain other colons.
C23_MultiLineSignatureComplete ==
    CondensedPythonAt({MODERATE, HEAVY})
        => \A k \in 1..Len(MultiLineFunctions(call.content)) :
               LET node == MultiLineFunctions(call.content)[k]
               IN  OccursIn(SubSeq(call.content, node.lineno,
                                   SignatureLastLine(call.content, node.lineno)),
                            ret.content)

(***************************************************************************)
(* The item caps of the JavaScript/TypeScript and Java strategies.         *)
(***************************************************************************)
\* The call condensed a file of one of the suffixes given at MODERATE or
\* HEAVY level.
BraceCondensed(suffixes) ==
    /\ CondenserReturned
    /\ FileSuffix(call.name) \in suffixes
    /\ ~IsBlank(call.content)
    /\ ret.info.level \in {MODERATE, HEAVY}

\* The lines of the items given, as the strategies join them.
ItemLines(items) == SplitText(JoinText(items))

\* The prefixes of a list of matches that hold at most 10 of them.
UpToTen(matches) == {FirstN(matches, n) : n \in 0..Min(10, Len(matches))}

\* C24 (as claimed): at MODERATE or HEAVY level the output for a JS/TS or
\* Java file is made of at most 10 items of each extracted category
\* (exports, function or method signatures, class signatures; for Java also
\* the package and the imports), however many matches the input contains.
C24_AtMostTenItemsPerCategory ==
    /\ BraceCondensed({".js", ".ts", ".jsx", ".tsx"})
           => \E text \in {JoinText(call.content)} :
              \E exports \in UpToTen(findall(text, JsExport)) :
              \E functions \in UpToTen(findall(text, JsFunctionSignature)) :
              \E classes \in UpToTen(findall(text, JsClassSignature)) :
                  ret.content = ItemLines(exports \o functions \o classes)
    /\ BraceCondensed({".java"})
           => \E text \in {JoinText(call.content)} :
              \E package \in UpToTen(findall(text, JavaPackage)) :
              \E imports \in UpToTen(findall(text, JavaImport)) :
              \E classes \in UpToTen(findall(text, JavaClassSignature)) :
              \E methods \in UpToTen(findall(text, JavaMethodSignature)) :
                  ret.content = ItemLines(package \o imports \o classes \o methods)

(***************************************************************************)
(* ProgressiveCondenser._describe_data_structure on parsed JSON/YAML data. *)
(* A value is a record: a dict with its items in insertion order, a list,  *)
(* or a scalar with its type name and its repr().  The result carries the  *)
(* description and `deepest`, the greatest current_depth any call of the   *)
(* recursion was entered with.                                             *)
(***************************************************************************)
MaxDataDepth == 3

Scalar(type_name, repr) == [type |-> type_name, repr |-> repr]
Dict(items) == [type |-> "dict", items |-> items]
List(items) == [type |-> "list", items |-> items]

Described(val, deepest) == [val |-> val, deepest |-> deepest]

\* ", ".join(items)
RECURSIVE CommaJoinTexts(_)
CommaJoinTexts(items) ==
    IF items = <<>> THEN ""
    ELSE IF Len(items) = 1 THEN items[1]
    ELSE items[1] \o ", " \o CommaJoinTexts(Tail(items))

\* The greatest `deepest` of the descriptions given, at least d.
RECURSIVE DeepestOf(_, _)
DeepestOf(descs, d) ==
    IF descs = <<>> THEN d ELSE DeepestOf(Tail(descs), Max(d, Head(descs).deepest))

\* Lines 648-653: the description of a scalar.
DescribeScalar(data) ==
    IF Len(data.repr) > 20 THEN data.type \o "(" \o SubSeq(data.repr, 1, 20) \o "...)"
    ELSE data.repr

\* The recursion without its depth test.
RECURSIVE _describe_data_structure_no_cap(_, _, _)
_describe_data_structure_no_cap(data, max_depth, current_depth) ==
    IF data.type = "dict"
    THEN IF data.items = <<>> THEN Described("{}", current_depth)
         ELSE LET first == FirstN(data.items, 5)
                  descs == [k \in 1..Len(first) |->
                               _describe_data_structure_no_cap(first[k].value, max_depth,
                                                               current_depth + 1)]
                  items == [k \in 1..Len(first) |->
                               "\"" \o first[k].key \o "\": " \o descs[k].val]
                           \o (IF Len(data.items) > 5 THEN <<"...">> ELSE <<>>)
              IN  Described("{" \o CommaJoinTexts(items) \o "}", DeepestOf(descs, current_depth))
    ELSE IF data.type = "list"
    THEN IF data.items = <<>> THEN Described("[]", current_depth)
         ELSE LET first_desc == _describe_data_structure_no_cap(data.items[1], max_depth,
                                                                current_depth + 1)
              IN  IF Len(data.items) = 1
                  THEN Described("[" \o first_desc.val \o "]", first_desc.deepest)
                  ELSE Described("[" \o first_desc.val \o ", ...] (length: "
                                     \o ToString(Len(data.items)) \o ")",
                                 first_desc.deepest)
    ELSE Described(DescribeScalar(data), current_depth)

RECURSIVE _describe_data_structure(_, _, _)
_describe_data_structure(data, max_depth, current_depth) ==
    IF current_depth >= max_depth THEN Described("<" \o data.type \o ">", current_depth)
    ELSE IF data.type = "dict"
    THEN IF data.items = <<>> THEN Described("{}", current_depth)
         ELSE LET first == FirstN(data.items, 5)
                  descs == [k \in 1..Len(first) |->
                               _describe_data_structure(first[k].value, max_depth,
                                                        current_depth + 1)]
                  items == [k \in 1..Len(first) |->
                               "\"" \o first[k].key \o "\": " \o descs[k].val]
                           \o (IF Len(data.items) > 5 THEN <<"...">> ELSE <<>>)
              IN  Described("{" \o CommaJoinTexts(items) \o "}", DeepestOf(descs, current_depth))
    ELSE IF data.type = "list"
    THEN IF data.items = <<>> THEN Described("[]", current_depth)
         ELSE LET first_desc == _describe_data_structure(data.items[1], max_depth,
                                                         current_depth + 1)
              IN  IF Len(data.items) = 1
                  THEN Described("[" \o first_desc.val \o "]", first_desc.deepest)
                  ELSE Described("[" \o first_desc.val \o ", ...] (length: "
                                     \o ToString(Len(data.items)) \o ")",
                                 first_desc.deepest)
    ELSE Described(DescribeScalar(data), current_depth)

\* The depth cap _summarize_json_structure passes for a level.
DepthCap(level) == IF level = MODERATE THEN 2 ELSE 1

_summarize_json_structure(data, level) == _describe_data_structure(data, DepthCap(level), 0)

\* The values nested at most n levels deep.
RECURSIVE DataValues(_)
DataValues(n) ==
    LET scalars == {Scalar("int", "1"), Scalar("str", "'aaaaaaaaaaaaaaaaaaaaa'")}
    IN  IF n = 0 THEN scalars
        ELSE LET inner == DataValues(n - 1)
             IN  scalars \cup {Dict(<<>>), List(<<>>)}
                 \cup {Dict(<<[key |-> "k", value |-> v]>>) : v \in inner}
                 \cup {List(<<v>>) : v \in inner}
                 \cup {List(<<v, Scalar("int", "1")>>) : v \in inner}

\* A dict of six keys, one more than is described.
WideDict == Dict([k \in 1..6 |-> [key |-> "k" \o ToString(k), value |-> List(<<Scalar("int", "1")>>)]])

SummarizeJsonStructure ==
    /\ call = NoCall
    /\ loop = NoLoop
    /\ \E data \in DataValues(MaxDataDepth) \cup {WideDict} : \E level \in {MODERATE, HEAVY, MAXIMUM} :
       \E r \in {_summarize_json_structure(data, level)} :
           /\ call' = [op |-> "_summarize_json_structure", data |-> data, level |-> level]
           /\ ret' = [op |-> "_summarize_json_structure", val |-> r.val, deepest |-> r.deepest,
                      max_depth |-> DepthCap(level)]
    /\ UNCHANGED <<strategy, chunker_stats, stats, workerVars, loop>>

(***************************************************************************)
(* The while loop of SmartChunker._create_chunks_with_boundaries, one      *)
(* iteration per step.  visited lists the line indexes the iterations      *)
(* started at.                                                             *)
(***************************************************************************)
\* The boundaries the chunker of the file type hands to the packer, for a
\* source that reaches the packer.
DiscoveredBoundaries(content, suffix) ==
    IF suffix = ".py" THEN _find_python_boundaries(ast_parse(content), content)
    ELSE IF suffix = ".java" THEN JavaBoundaries(content, 0)
    ELSE JsBoundaries(content, 0)

ReachesPacker(content, suffix, max_tokens) ==
    /\ ~IsBlank(content)
    /\ estimate_tokens_from_text(content) > max_tokens
    /\ suffix = ".py" => ast_parse(content).ok

PackerFileNames == {"a.py", "a.JS", "a.java"}

PackerBudgets == {-1, 0, MaxBudget}

PackerBegin ==
    /\ call = NoCall
    /\ loop = NoLoop
    /\ \E name \in PackerFileNames : \E content \in Texts(LinesOf(name)) :
       \E max_tokens \in PackerBudgets :
           /\ ReachesPacker(content, FileSuffix(name), max_tokens)
           /\ loop' = [pc |-> "while", lines |-> content,
                       boundaries |-> DiscoveredBoundaries(content, FileSuffix(name)),
                       max_tokens |-> max_tokens, i |-> 0,
                       st |-> [chunks |-> <<>>, current_chunk_lines |-> <<>>,
                               current_tokens |-> 0, chunk_id |-> 1,
                               last_line_processed |-> 0],
                       visited |-> <<>>, chunks |-> <<>>]
    /\ UNCHANGED <<strategy, chunker_stats, stats, call, ret, workerVars>>

PackerIterate ==
    /\ loop.pc = "while"
    /\ loop.i < Len(loop.lines)
    /\ \E step \in {PackStep(loop.lines, loop.boundaries, loop.max_tokens, loop.i, loop.st)} :
           loop' = [loop EXCEPT !.i = step.i, !.st = step.st, !.visited = Append(@, loop.i)]
    /\ UNCHANGED <<strategy, chunker_stats, stats, call, ret, workerVars>>

PackerExit ==
    /\ loop.pc = "while"
    /\ loop.i >= Len(loop.lines)
    /\ loop' = [loop EXCEPT !.pc = "done", !.chunks = SetTotalChunks(PackLast(loop.st))]
    /\ UNCHANGED <<strategy, chunker_stats, stats, call, ret, workerVars>>

NextLoops ==
    \/ PackerBegin
    \/ PackerIterate
    \/ PackerExit
    \/ SummarizeJsonStructure

\* The loops read no field of the strategy: one strategy is enough.
InitLoops == Init /\ strategy = [include_context_headers |-> TRUE, overlap_functions |-> TRUE]

\* The interpreter keeps executing a loop it is in.
SpecLoops == InitLoops /\ [][NextLoops]_vars /\ WF_vars(PackerIterate) /\ WF_vars(PackerExit)

\* C25: chunk_with_context terminates for every input and every max_tokens,
\* max_tokens <= 0 and overlapping or nested boundary spans included: every
\* iteration of the boundary packer starts at a line index inside the source
\* and ends at a strictly greater one (so no line is visited twice), a
\* packer loop that was entered is always left, and no call of the data
\* description recursion is entered deeper than the depth cap.
C25_LoopsTerminate ==
    /\ [][(loop.pc = "while" /\ loop'.pc = "while")
              => (loop.i < Len(loop.lines) /\ loop'.i > loop.i)]_vars
    /\ (loop.pc = "while") ~> (loop.pc = "done")
    /\ [](ret.op = "_summarize_json_structure" => ret.deepest <= ret.max_depth)

\* Two boundary spans one of which starts inside the other.
OverlappingSpans(boundaries) ==
    \E m, n \in 1..Len(boundaries) :
        boundaries[m].start < boundaries[n].start /\ boundaries[n].start <= boundaries[m].end

C25_Witness ==
    /\ loop.pc = "done"
    /\ loop.max_tokens <= 0
    /\ OverlappingSpans(loop.boundaries)
    /\ Len(loop.visited) >= 2
    /\ loop.chunks = PackWithBoundaries(loop.lines, loop.boundaries, loop.max_tokens)

(***************************************************************************)
(* check_homebrew_update                                                   *)
(***************************************************************************)
\* C26: check_homebrew_update asks brew first and the GitHub formula only
\* when brew gave no result; it returns (has_update, latest) of the first
\* source that succeeded, has_update being true exactly when latest differs
\* from current_version; it returns None only when both sources failed; and
\* it never raises.
C26_FirstSourceThatSucceeds ==
    ret.op = "check_homebrew_update" =>
        LET brew == check_brew_outdated(call.run).val
            formula == check_formula_github(call.fetch).val
        IN  /\ ret.exc = "none"
            /\ ret.consulted \in {<<"brew">>, <<"brew", "github">>}
            /\ (ret.consulted = <<"brew", "github">>) <=> (brew = <<>>)
            /\ (ret.val = <<>>) <=> (brew = <<>> /\ formula = <<>>)
            /\ ret.val # <<>> =>
                   /\ ret.val[2] = IF brew # <<>> THEN brew[2] ELSE formula[1]
                   /\ ret.val[1] = (ret.val[2] # call.current_version)

\* brew raised, and the version came from the url line of the formula.
C26_Witness ==
    /\ ret.op = "check_homebrew_update"
    /\ call.run.exc = "PermissionError"
    /\ call.fetch.content = "url \"h/folder2md4llms-0.2.1.tar.gz\""
    /\ call.current_version = "0.2.2"
    /\ ret.consulted = <<"brew", "github">>
    /\ ret.val = <<TRUE, "0.2.1">>

(***************************************************************************)
(* get_condensing_stats.  The dict it returns is self.stats.copy(): a new  *)
(* dict whose values are the values of self.stats.  The two counters are   *)
(* integers; the value under "condensing_levels_used" is the reference to  *)
(* the histogram dict of the instance, which the copy does not duplicate.  *)
(* The model's heap keeps the histogram inside its stats dict, so that     *)
(* reference is the address of the stats dict it belongs to.               *)
(***************************************************************************)
get_condensing_stats_copy(h, self) ==
    [kind |-> "dict", files_processed |-> h[self.stats].files_processed,
     tokens_saved |-> h[self.stats].tokens_saved,
     condensing_levels_used |-> [histogram_of |-> self.stats]]

\* The dict a reference to a histogram leads to.
Histogram(h, ref) == h[ref.histogram_of].condensing_levels_used

\* d[key] = n
CountSet(d, key, n) == [l \in DOMAIN d \cup {key} |-> IF l = key THEN n ELSE d[l]]

\* What the caller reads in the dict d it holds.
ReadStats(h, d) ==
    [files_processed |-> d.files_processed, tokens_saved |-> d.tokens_saved,
     condensing_levels_used |-> Histogram(h, d.condensing_levels_used)]

GetCondensingStats(w) ==
    /\ pending[w] = NoCall
    /\ held[w] = NoDict
    /\ held' = [held EXCEPT ![w] = get_condensing_stats_copy(heap, condensers[w])]
    /\ taken' = [taken EXCEPT ![w] = heap[condensers[w].stats]]
    /\ UNCHANGED <<strategy, chunker_stats, stats, call, ret, heap, condensers, chunkers, pending,
                   made, totals, loop>>

\* The caller's changes to the dict it holds, each made once (taken records
\* them, so that it stays what the caller expects to read):
\* d["files_processed"] = 7, and d["condensing_levels_used"]["light"] = 7.
CallerSetsCounter(w) ==
    /\ held[w] # NoDict
    /\ held[w].files_processed # 7
    /\ held' = [held EXCEPT ![w].files_processed = 7]
    /\ taken' = [taken EXCEPT ![w].files_processed = 7]
    /\ UNCHANGED <<strategy, chunker_stats, stats, call, ret, heap, condensers, chunkers, pending,
                   made, totals, loop>>

CallerSetsHistogramEntry(w) ==
    /\ held[w] # NoDict
    /\ GetOrZero(taken[w].condensing_levels_used, LIGHT) # 7
    /\ heap' = [heap EXCEPT ![held[w].condensing_levels_used.histogram_of].condensing_levels_used =
                     CountSet(@, LIGHT, 7)]
    /\ taken' = [taken EXCEPT ![w].condensing_levels_used = CountSet(@, LIGHT, 7)]
    /\ UNCHANGED <<strategy, chunker_stats, stats, call, ret, condensers, chunkers, pending,
                   made, totals, loop, held>>

\* One instance and its caller: calls of condense_with_budget, one call of
\* get_condensing_stats, and the caller's changes to the dict it got.
NextSnapshot ==
    \/ WorkerBegin("w1")
    \/ WorkerFinishCondense("w1")
    \/ WorkerFinishChunk("w1")
    \/ GetCondensingStats("w1")
    \/ CallerSetsCounter("w1")
    \/ CallerSetsHistogramEntry("w1")

SpecSnapshot == Init /\ [][NextSnapshot]_vars

\* C27 (as claimed): the dict get_condensing_stats returned is a snapshot:
\* calls of condense_with_budget made after it change nothing in it, the
\* per-level histogram included, and the caller's changes to it do not
\* alter the counters of the instance.
C27_StatsAreSnapshot ==
    \A w \in Workers :
        /\ held[w] # NoDict => ReadStats(heap, held[w]) = taken[w]
        /\ heap[condensers[w].stats] = made[w].condenser_alone

\* The two counters of the returned dict, and of the instance, are not
\* affected.
C27_CountersAreSnapshot ==
    \A w \in Workers :
        /\ held[w] # NoDict =>
               /\ held[w].files_processed = taken[w].files_processed
               /\ held[w].tokens_saved = taken[w].tokens_saved
        /\ heap[condensers[w].stats].files_processed = made[w].condenser_alone.files_processed
        /\ heap[condensers[w].stats].tokens_saved = made[w].condenser_alone.tokens_saved

\* A call saved tokens after the dict was returned, and the caller changed
\* both a counter and a histogram entry.
C27_Witness ==
    /\ held["w1"] # NoDict
    /\ held["w1"].files_processed = 7
    /\ GetOrZero(taken["w1"].condensing_levels_used, LIGHT) = 7
    /\ held["w1"].tokens_saved # heap[condensers["w1"].stats].tokens_saved

(***************************************************************************)
(* The recommended chunk size and the budget.                              *)
(***************************************************************************)
\* The call returned a size for content that does not fit a positive budget.
SizeRecommended ==
    /\ ret.op = "estimate_optimal_chunk_size"
    /\ ret.exc = "none"
    /\ call.total_token_budget > 0
    /\ call.target_chunks >= 1
    /\ estimate_tokens_from_text(call.content) > call.total_token_budget

\* C28 (as claimed): when the content does not fit a positive
\* total_token_budget and target_chunks >= 1, the recommended chunk size
\* never exceeds total_token_budget, for every file type.
C28_SizeWithinBudget == SizeRecommended => ret.val <= call.total_token_budget

\* C28 (amended): under the same conditions the recommended size never
\* exceeds total_token_budget for .py and for the unadjusted types; for
\* .js/.ts/.jsx/.tsx it never exceeds max(total_token_budget, 500), and it
\* exceeds the budget exactly when the budget is below the floor of 500,
\* where it is 500.
C28_SizeWithinBudgetOrFloor ==
    SizeRecommended =>
        IF FileSuffix(call.name) \in {".js", ".ts", ".jsx", ".tsx"}
        THEN /\ ret.val <= Max(call.total_token_budget, 500)
             /\ ret.val > call.total_token_budget <=> call.total_token_budget < 500
             /\ call.total_token_budget < 500 => ret.val = 500
        ELSE ret.val <= call.total_token_budget

\* A TypeScript file, a budget below the floor, and a recommendation of 500.
C28_Witness ==
    /\ SizeRecommended
    /\ call.name = "a.tsx"
    /\ call.total_token_budget = 3
    /\ ret.val = 500

(***************************************************************************)
(* The line ranges of the packed chunks.                                   *)
(***************************************************************************)
\* The positions of the packed chunks that carry start_line and end_line.
Ranged(packed) == {k \in 1..Len(packed) : packed[k].start_line # None /\ packed[k].end_line # None}

\* lines[start : end + 1] joined, for 0-based positions.
SourceLines(lines, start, end) == Join(SubSeq(lines, start + 1, end + 1))

\* C29: in every sequence the boundary packer or the generic packer
\* returns, each chunk that carries both start_line and end_line holds
\* exactly the source lines start_line..end_line (0-based, inclusive) as its
\* content before enrichment, and these ranges are pairwise disjoint and
\* strictly ascending in chunk_id order.
C29_ChunkHoldsItsLineRange ==
    ChunkerReturned /\ ret.path = "split" =>
        /\ \A k \in Ranged(ret.packed) :
               /\ 0 <= ret.packed[k].start_line
               /\ ret.packed[k].start_line <= ret.packed[k].end_line
               /\ ret.packed[k].end_line < Len(call.content)
               /\ ret.packed[k].content
                      = SourceLines(call.content, ret.packed[k].start_line, ret.packed[k].end_line)
        /\ \A j, k \in Ranged(ret.packed) :
               ret.packed[j].chunk_id < ret.packed[k].chunk_id
                   => ret.packed[j].end_line < ret.packed[k].start_line

\* The boundary packer returned a ranged chunk that does not start at line
\* 0, and the sub-chunks of a split span.
C29_Witness ==
    /\ ChunkerReturned
    /\ ret.boundaries # <<>>
    /\ \E j, k \in 1..Len(ret.packed) :
           /\ j \in Ranged(ret.packed)
           /\ k \notin Ranged(ret.packed)
           /\ ret.packed[j].start_line > 0

(***************************************************************************)
(* The limits of the command line.                                         *)
(***************************************************************************)
\* main got past click and past the two early returns, to the option
\* handling of lines 569-612.
OptionsHandled ==
    /\ ret.op = "main"
    /\ ret.exit_code # 2
    /\ ~HasFlag(call.argv, {"--init-ignore", "--check-updates"})

\* The limits main received that are not positive.
NonPositiveLimits ==
    {name \in LimitOptions : LimitOf(call.argv, name) # <<>> /\ LimitOf(call.argv, name)[1] <= 0}

\* The run made a call of fn.
MainMade(fn) == \E k \in 1..Len(ret.calls) : ret.calls[k].fn = fn

\* The limits the processor was given are positive.
StoredLimitsPositive ==
    \A k \in 1..Len(ret.calls) :
        ret.calls[k].fn = "RepositoryProcessor.process" =>
            \A limit \in {ret.calls[k].kwargs.token_limit, ret.calls[k].kwargs.char_limit} :
                limit # <<>> => limit[1] > 0

\* C30 (as claimed): the command line rejects every non-positive
\* --token-limit or --char-limit value, zero as well as negative, by exiting
\* with code 1 before the repository is processed or any output file is
\* written; a limit is stored in the configuration only when it is positive.
C30_NonPositiveLimitRejected ==
    OptionsHandled =>
        /\ NonPositiveLimits # {} =>
               /\ ret.exit_code = 1
               /\ ~MainMade("RepositoryProcessor.process")
               /\ ~MainMade("Path.write_text")
        /\ StoredLimitsPositive

\* What holds: every negative limit is rejected in that way, and a limit is
\* stored only when it is positive.
C30_NegativeLimitRejected ==
    OptionsHandled =>
        /\ (\E name \in LimitOptions :
                LimitOf(call.argv, name) # <<>> /\ LimitOf(call.argv, name)[1] < 0) =>
               /\ ret.exit_code = 1
               /\ ~MainMade("RepositoryProcessor.process")
               /\ ~MainMade("Path.write_text")
        /\ StoredLimitsPositive

\* --token-limit=0 alone: the repository is processed and the output written.
C30_ZeroLimitProcessed ==
    /\ OptionsHandled
    /\ call.argv = <<"--token-limit=0">>
    /\ ret.exit_code = 0
    /\ MainMade("Path.write_text")

====
